---- MODULE Spec2Model ----
(***************************************************************************)
(* EventHub: the three server variants of the repository as one state      *)
(* machine.                                                                *)
(*   "kv"   the Hono server on the key-value store                         *)
(*          (src/src/supabase/functions/server/index.tsx); a handler       *)
(*          yields at every await on kv.get / kv.set / kv.del, so each     *)
(*          store call is one step and handlers interleave between them.   *)
(*   "mem"  the in-memory Deno server (src/unnamed/part_000); a handler    *)
(*          runs to completion between awaits (req.json, hashPassword).    *)
(*   "mock" MockServer (src/unnamed/part_004), same store shape as "mem".  *)
(* The store has the same shape in the three variants: events, users, the  *)
(* email index, bookings and (kv only) the user-booking index.             *)
(* now is Date.now() in milliseconds; auth[r] is what the authentication   *)
(* check of request r was given and what it decided.                       *)
(***************************************************************************)
EXTENDS Integers, Sequences, FiniteSets, TLC

VARIABLES variant, events, users, userEmails, bookings, userBookings,
          initialized, nextId, req, now, auth, cartItems, checkout

vars == <<variant, events, users, userEmails, bookings, userBookings,
          initialized, nextId, req, now, auth, cartItems, checkout>>

\* The state of the browser client: the cart of App.tsx and the progress of
\* CartPage's handleCheckout.
client == <<cartItems, checkout>>

store == <<events, users, userEmails, bookings, userBookings, initialized>>

(***************************************************************************)
(* Bounds of the model.                                                    *)
(***************************************************************************)
\* Number of requests in flight or answered in one behaviour.
MaxReq == 2
\* Largest capacity of the administrator-created event of the initial state,
\* and largest quantity / capacity a request carries.
MaxCap == 2

Variants == {"kv", "mem", "mock"}
Reqs == 1..MaxReq

(***************************************************************************)
(* Identity helpers.                                                       *)
(***************************************************************************)
\* crypto.randomUUID(): the n-th identifier drawn; distinct draws differ.
UuidPool == <<"uuid-1", "uuid-2", "uuid-3", "uuid-4", "uuid-5", "uuid-6",
              "uuid-7", "uuid-8", "uuid-9", "uuid-10", "uuid-11", "uuid-12">>
\* Mutant of randomUUID: every draw returns the same identifier.
randomUUIDRepeated(n) == UuidPool[1]

randomUUID(n) == UuidPool[n]

testUserId == "test-user-123"
adminUserId == "admin-user-123"

\* SHA-256 hex digest of the password text.  The two seeded digests are the
\* ones written in the in-memory server; the digest of "" is SHA-256 of the
\* empty string, which differs from the empty digest of a social account.
hashPassword(password) ==
    CASE password = "password123" -> "5e884898da28047151d0e56f8dc62927"
      [] password = "admin123" -> "240be518fabd2724ddb6f04eeb1da596"
      [] password = "" -> "e3b0c44298fc1c149afbf4c8996fb924"
      [] password = "secret1" -> "5b11618c2e44027877d0cd0921ed166b"
      [] password = "secret2" -> "35224d0d3465d74e855f8d69a136e79c"

(***************************************************************************)
(* Tokens.  A token is text; the model keeps of a text what atob and       *)
(* JSON.parse make of it: whether it decodes, whether it parses, and the   *)
(* parsed payload.  exp of a payload is a number, null, or undefined       *)
(* (the field is absent).                                                  *)
(***************************************************************************)
\* 24 * 60 * 60 * 1000
TokenLifetime == 24 * 60 * 60 * 1000

Payload(userId, expKind, exp) == [userId |-> userId, expKind |-> expKind, exp |-> exp]
NoPayload == Payload("", "undefined", 0)

\* JSON.stringify(payload): text that JSON.parse reads back as the payload.
JSONstringify(payload) == [parses |-> TRUE, value |-> payload]
\* Text that is not JSON; the empty text is one.
NotJson == [parses |-> FALSE, value |-> NoPayload]
\* btoa(text): base64 that atob decodes to the text.
btoa(text) == [base64 |-> TRUE, text |-> text]
\* A token that is not base64.
NotBase64 == [base64 |-> FALSE, text |-> NotJson]
\* The empty string: atob("") is "", which JSON.parse refuses.
NoToken == btoa(NotJson)

\* generateToken(userId) ==
\*   btoa(JSON.stringify({ userId, exp: Date.now() + 24 * 60 * 60 * 1000 }))
generateToken(userId) ==
    btoa(JSONstringify(Payload(userId, "number", now + TokenLifetime)))

\* decoded.exp < Date.now(): undefined compares as NaN (never less), null as 0.
ExpiredAt(decoded, time) ==
    CASE decoded.expKind = "number" -> decoded.exp < time
      [] decoded.expKind = "null" -> 0 < time
      [] decoded.expKind = "undefined" -> FALSE

\* verifyToken(token) at Date.now() = time: the payload's userId, or "" for
\* null.  atob and JSON.parse throw on text they cannot read; the catch
\* returns null.
verifyTokenAt(token, time) ==
    IF ~token.base64 \/ ~token.text.parses THEN ""
    ELSE LET decoded == token.text.value
         IN IF decoded.userId = "" THEN ""
            ELSE IF ExpiredAt(decoded, time) THEN ""
            ELSE decoded.userId

verifyToken(token) == verifyTokenAt(token, now)

(***************************************************************************)
(* Seed data.  Prices are in hundredths.                                   *)
(***************************************************************************)
Event(total, available, price) ==
    [totalTickets |-> total, availableTickets |-> available, price |-> price]

sampleEvents(v) ==
    IF v = "mem"
    THEN ("1" :> Event(500, 350, 29999)) @@ ("2" :> Event(150, 75, 8500))
         @@ ("3" :> Event(50, 25, 15000))
    ELSE ("1" :> Event(500, 350, IF v = "kv" THEN 29999 ELSE 250000))
         @@ ("2" :> Event(150, 75, IF v = "kv" THEN 8500 ELSE 120000))
         @@ ("3" :> Event(50, 25, IF v = "kv" THEN 15000 ELSE 150000))
         @@ ("4" :> Event(20000, 15000, IF v = "kv" THEN 7500 ELSE 80000))
         @@ ("5" :> Event(200, 180, IF v = "kv" THEN 2500 ELSE 30000))

\* firstName stands for the two name fields; a sign-up's is "First".
User(id, email, digest, admin) ==
    [id |-> id, email |-> email, password |-> digest, isAdmin |-> admin,
     firstName |-> "First"]

testUser == User(testUserId, "test@example.com", hashPassword("password123"), FALSE)
adminUser == User(adminUserId, "admin@example.com", hashPassword("admin123"), TRUE)

\* The event an administrator created before the behaviour starts
\* (POST /admin/events with capacity c): available = total = c.
createdEventId == "uuid-0"
createdEvent(c) == Event(c, c, 1000)

(***************************************************************************)
(* Requests.  A request slot holds the handler's inputs, its position and  *)
(* its local variables, and, once answered, the response.                  *)
(***************************************************************************)
\* The body of POST /admin/events; "" and priceGiven = FALSE stand for a
\* field the body does not have.
Body(title, date, location, priceGiven, price, description, category, status) ==
    [title |-> title, date |-> date, location |-> location,
     priceGiven |-> priceGiven, price |-> price, description |-> description,
     category |-> category, status |-> status]
NoBody == Body("", "", "", FALSE, 0, "", "", "")

\* The body of PUT /admin/events/:id beside capacity: description and price
\* are tested with !== undefined, category and status with ||, so "" stands
\* for an absent category or status.
Patch(descriptionGiven, description, category, priceGiven, price, status) ==
    [descriptionGiven |-> descriptionGiven, description |-> description,
     category |-> category, priceGiven |-> priceGiven, price |-> price,
     status |-> status]
NoPatch == Patch(FALSE, "", "", FALSE, 0, "")

IdleReq ==
    [op |-> "", pc |-> "idle", userId |-> "", eventId |-> "", quantity |-> 0,
     totalAmount |-> 0, email |-> "", password |-> "",
     capacityGiven |-> FALSE, capacity |-> 0, firstName |-> "", body |-> NoBody,
     event |-> Event(0, 0, 0), user |-> User("", "", "", FALSE),
     id |-> "", seen |-> 0, status |-> "", token |-> NoToken,
     scanned |-> {}, pending |-> {}, listed |-> {}, patch |-> NoPatch]

\* Slots are taken in order: a new request takes the lowest free slot.
Free(r) == /\ req[r].pc = "idle"
           /\ \A s \in Reqs : s < r => req[s].pc # "idle"

Respond(rec, st) == [rec EXCEPT !.pc = "done", !.status = st]

\* The Authorization header of a request and the outcome of the check:
\* at is Date.now() when verifyToken ran, userId the subject it returned.
Header(present, scheme, token) == [present |-> present, scheme |-> scheme, token |-> token]
NoHeader == Header(FALSE, "", NoToken)
NoAuth == [header |-> NoHeader, at |-> 0, userId |-> ""]

\* CartPage: no checkout has run; items is the cart handleCheckout closed over,
\* results the outcome of the createBooking call of each item ("" while it is
\* pending, the booking id when it resolved, "failed" when it threw).
NoCheckout == [pc |-> "idle", items |-> <<>>, results |-> <<>>, runs |-> 0]

Init ==
    /\ variant \in Variants
    /\ \E c \in 1..MaxCap :
          events = (createdEventId :> createdEvent(c)) @@ sampleEvents(variant)
    /\ users = (testUserId :> testUser) @@ (adminUserId :> adminUser)
    /\ userEmails = ("test@example.com" :> testUserId)
                    @@ ("admin@example.com" :> adminUserId)
    /\ bookings = <<>>
    /\ userBookings = {}
    /\ initialized = TRUE
    /\ nextId = 1
    /\ req = [r \in Reqs |-> IdleReq]
    /\ now = 1
    /\ auth = [r \in Reqs |-> NoAuth]
    /\ cartItems = <<>>
    /\ checkout = NoCheckout

(***************************************************************************)
(* Booking.                                                                *)
(***************************************************************************)
\* if (!quantity || quantity < 1)
InvalidQuantity(quantity) == quantity = 0 \/ quantity < 1

\* Mutant of NotEnoughTickets: the comparison off by one.
NotEnoughTicketsOffByOne(event, quantity) == event.availableTickets + 1 < quantity

\* if (event.availableTickets < quantity)
NotEnoughTickets(event, quantity) == event.availableTickets < quantity

\* { ...event, availableTickets: event.availableTickets - quantity }
DecrementedEvent(event, quantity) ==
    [event EXCEPT !.availableTickets = event.availableTickets - quantity]

\* totalAmount || event.price * quantity  (POST /bookings, mem, mock);
\* event.price * quantity                 (POST /events/:id/book)
TotalPrice(op, event, quantity, totalAmount) ==
    IF op = "book" THEN event.price * quantity
    ELSE IF totalAmount # 0 THEN totalAmount ELSE event.price * quantity

Booking(id, userId, eventId, quantity, totalPrice) ==
    [id |-> id, userId |-> userId, eventId |-> eventId, quantity |-> quantity,
     totalPrice |-> totalPrice, status |-> "Confirmed"]

\* kv: POST /events/:id/book ("book") and POST /bookings ("bookings"), after
\* requireAuth let the request through: body parsed, quantity validated,
\* kv.get of the event issued.
KvBookSubmit(r, op, userId, eventId, quantity, totalAmount) ==
    /\ variant = "kv"
    /\ Free(r)
    /\ LET rec == [IdleReq EXCEPT !.op = op, !.userId = userId,
                                  !.eventId = eventId, !.quantity = quantity,
                                  !.totalAmount = totalAmount]
       IN req' = [req EXCEPT ![r] =
                    IF eventId = "" \/ InvalidQuantity(quantity)
                    THEN Respond(rec, "validation")
                    ELSE [rec EXCEPT !.pc = "getEvent"]]
    /\ UNCHANGED <<variant, store, nextId>>

\* kv.get(`event:${eventId}`) returns; not-found and availability checks;
\* booking id drawn; kv.set of the booking issued.
KvBookGetEvent(r) ==
    /\ req[r].pc = "getEvent"
    /\ req[r].op \in {"book", "bookings"}
    /\ IF req[r].eventId \notin DOMAIN events
       THEN /\ req' = [req EXCEPT ![r] = Respond(@, "notFound")]
            /\ UNCHANGED nextId
       ELSE LET event == events[req[r].eventId]
            IN IF NotEnoughTickets(event, req[r].quantity)
               THEN /\ req' = [req EXCEPT ![r] = Respond(@, "notEnough")]
                    /\ UNCHANGED nextId
               ELSE /\ req' = [req EXCEPT ![r].pc = "setBooking",
                                          ![r].event = event,
                                          ![r].id = randomUUID(nextId)]
                    /\ nextId' = nextId + 1
    /\ UNCHANGED <<variant, store>>

\* kv.set(`booking:${bookingId}`, booking)
KvBookSetBooking(r) ==
    /\ req[r].pc = "setBooking"
    /\ bookings' = (req[r].id :> Booking(req[r].id, req[r].userId, req[r].eventId,
                       req[r].quantity,
                       TotalPrice(req[r].op, req[r].event, req[r].quantity,
                                  req[r].totalAmount))) @@ bookings
    /\ req' = [req EXCEPT ![r].pc = "setUserBooking"]
    /\ UNCHANGED <<variant, events, users, userEmails, userBookings, initialized, nextId>>

\* kv.set(`user_booking:${userId}:${bookingId}`, bookingId)
KvBookSetUserBooking(r) ==
    /\ req[r].pc = "setUserBooking"
    /\ userBookings' = userBookings \cup {<<req[r].userId, req[r].id>>}
    /\ req' = [req EXCEPT ![r].pc = "setEvent"]
    /\ UNCHANGED <<variant, events, users, userEmails, bookings, initialized, nextId>>

\* kv.set(`event:${eventId}`, updatedEvent), then the success response.
KvBookSetEvent(r) ==
    /\ req[r].pc = "setEvent"
    /\ req[r].op \in {"book", "bookings"}
    /\ events' = (req[r].eventId :> DecrementedEvent(req[r].event, req[r].quantity))
                 @@ events
    /\ req' = [req EXCEPT ![r] = Respond(@, "ok")]
    /\ UNCHANGED <<variant, users, userEmails, bookings, userBookings, initialized, nextId>>

\* The part of createBooking that the in-memory server and MockServer share:
\* event lookup, availability check, in-place decrement, booking stored.
\* Runs without an await, so it is one step.
CreateBookingNow(r, rec) ==
    IF rec.eventId \notin DOMAIN events
    THEN /\ req' = [req EXCEPT ![r] = Respond(rec, "notFound")]
         /\ UNCHANGED <<events, bookings, nextId>>
    ELSE LET event == events[rec.eventId]
             id == randomUUID(nextId)
         IN IF NotEnoughTickets(event, rec.quantity)
            THEN /\ req' = [req EXCEPT ![r] = Respond(rec, "notEnough")]
                 /\ UNCHANGED <<events, bookings, nextId>>
            ELSE /\ events' = [events EXCEPT ![rec.eventId] =
                                  DecrementedEvent(event, rec.quantity)]
                 /\ bookings' = (id :> Booking(id, rec.userId, rec.eventId,
                                     rec.quantity,
                                     TotalPrice(rec.op, event, rec.quantity,
                                                rec.totalAmount))) @@ bookings
                 /\ nextId' = nextId + 1
                 /\ req' = [req EXCEPT ![r] =
                              Respond([rec EXCEPT !.event = event, !.id = id], "ok")]

\* mem: POST .../bookings with a valid bearer token.
MemCreateBooking(r, userId, eventId, quantity, totalAmount) ==
    /\ variant = "mem"
    /\ Free(r)
    /\ LET rec == [IdleReq EXCEPT !.op = "bookings", !.userId = userId,
                                  !.eventId = eventId, !.quantity = quantity,
                                  !.totalAmount = totalAmount]
       IN IF eventId = "" \/ InvalidQuantity(quantity)
          THEN /\ req' = [req EXCEPT ![r] = Respond(rec, "validation")]
               /\ UNCHANGED <<events, bookings, nextId>>
          ELSE CreateBookingNow(r, rec)
    /\ UNCHANGED <<variant, users, userEmails, userBookings, initialized>>

\* mock: MockServer.createBooking with a valid token; no quantity check.
MockCreateBooking(r, userId, eventId, quantity, totalAmount) ==
    /\ variant = "mock"
    /\ Free(r)
    /\ initialized
    /\ CreateBookingNow(r, [IdleReq EXCEPT !.op = "bookings", !.userId = userId,
                                  !.eventId = eventId, !.quantity = quantity,
                                  !.totalAmount = totalAmount])
    /\ UNCHANGED <<variant, users, userEmails, userBookings, initialized>>

\* Inputs of the booking requests.
Quantities == -1..MaxCap
BookEventIds == {createdEventId, "no-such-event"}

NextBooking ==
    /\ \E r \in Reqs :
          \/ \E op \in {"book", "bookings"}, e \in BookEventIds, q \in Quantities :
                KvBookSubmit(r, op, testUserId, e, q, 0)
          \/ KvBookGetEvent(r)
          \/ KvBookSetBooking(r)
          \/ KvBookSetUserBooking(r)
          \/ KvBookSetEvent(r)
          \/ \E e \in BookEventIds, q \in Quantities :
                MemCreateBooking(r, testUserId, e, q, 0)
          \/ \E e \in BookEventIds, q \in Quantities :
                MockCreateBooking(r, testUserId, e, q, 0)
    /\ UNCHANGED <<now, auth, client>>

SpecBooking == Init /\ [][NextBooking]_vars

(***************************************************************************)
(* Claims about booking, checked under SpecBooking.                        *)
(***************************************************************************)
IsBooking(rec) == rec.op \in {"book", "bookings"}
Answered(r) == req[r].pc = "done"
Succeeded == {r \in Reqs : Answered(r) /\ req[r].status = "ok"}

\* C1: in every reachable state of every server variant, after any
\* interleaving of booking requests, every Event has
\* 0 <= availableTickets <= totalTickets.
C1_InventoryWithinCapacity ==
    \A e \in DOMAIN events :
       /\ 0 <= events[e].availableTickets
       /\ events[e].availableTickets <= events[e].totalTickets

\* C2: when all MaxReq requests are 1-ticket bookings of the kv server against
\* the one Event that started with k available tickets, and MaxReq > k, then
\* once all are answered exactly k succeeded, the others failed with the
\* not-enough-tickets error, and the Event has 0 tickets available.
C2_ConcurrentBookingsExact ==
    LET k == events[createdEventId].totalTickets
    IN (/\ variant = "kv"
        /\ MaxReq > k
        /\ \A r \in Reqs : /\ Answered(r)
                           /\ IsBooking(req[r])
                           /\ req[r].eventId = createdEventId
                           /\ req[r].quantity = 1)
       => /\ Cardinality(Succeeded) = k
          /\ Cardinality({r \in Reqs : req[r].status = "notEnough"}) = MaxReq - k
          /\ events[createdEventId].availableTickets = 0

\* The step in which request r compares its quantity with the Event's stored
\* availableTickets: on the kv server the return of kv.get, on the in-memory
\* server and MockServer the whole (await-free) handler.
AvailabilityCheckStep(r) ==
    \/ /\ variant = "kv"
       /\ req[r].pc = "getEvent"
       /\ IsBooking(req[r])
       /\ req'[r] # req[r]
    \/ /\ variant \in {"mem", "mock"}
       /\ req[r].pc = "idle"
       /\ req'[r].pc = "done"
       /\ IsBooking(req'[r])

\* C3: a booking request whose quantity is greater than the Event's
\* availableTickets at the moment the handler checks it is answered with the
\* not-enough-tickets error, and that step creates no Booking, no user-booking
\* index entry and leaves every Event (its availableTickets included) as it was.
C3_InsufficientInventoryRejected ==
    [][\A r \in Reqs :
         (/\ AvailabilityCheckStep(r)
          /\ req'[r].eventId \in DOMAIN events
          /\ req'[r].quantity > events[req'[r].eventId].availableTickets)
         => /\ req'[r].pc = "done"
            /\ req'[r].status = "notEnough"
            /\ bookings' = bookings
            /\ userBookings' = userBookings
            /\ events' = events]_vars

\* C3 witness: on the kv server a request was refused for lack of tickets
\* after another request had booked the Event's last tickets.
C3_Witness ==
    /\ variant = "kv"
    /\ \E r, s \in Reqs :
          /\ req[r].status = "notEnough"
          /\ req[s].status = "ok"
          /\ req[r].quantity > events[req[r].eventId].availableTickets

\* C4: in every server variant a booking request with quantity < 1 is answered
\* with a validation error, and no Booking with quantity < 1 is ever stored.
C4_QuantityValidated ==
    /\ \A r \in Reqs :
          (Answered(r) /\ IsBooking(req[r]) /\ req[r].quantity < 1)
          => req[r].status = "validation"
    /\ \A b \in DOMAIN bookings : bookings[b].quantity >= 1

(***************************************************************************)
(* Catalog: the administrator's event operations of the kv server, after   *)
(* requireAuth and requireAdmin let the request through.                   *)
(***************************************************************************)
\* GET /events/:id
getEvent(eventId) ==
    IF eventId \in DOMAIN events
    THEN [status |-> "ok", event |-> events[eventId]]
    ELSE [status |-> "notFound", event |-> Event(0, 0, 0)]

\* Mutant of RecomputedAvailable: a plain overwrite with the new capacity.
RecomputedAvailableOverwrite(existingEvent, capacity) == capacity

\* capacity - (existingEvent.totalTickets - existingEvent.availableTickets)
RecomputedAvailable(existingEvent, capacity) ==
    capacity - (existingEvent.totalTickets - existingEvent.availableTickets)

\* updatedEvent of PUT /admin/events/:id, for the fields of the model.
UpdatedEvent(existingEvent, capacityGiven, capacity) ==
    [existingEvent EXCEPT
       !.totalTickets = IF capacityGiven THEN capacity ELSE existingEvent.totalTickets,
       !.availableTickets = IF capacityGiven
                            THEN RecomputedAvailable(existingEvent, capacity)
                            ELSE existingEvent.availableTickets]

\* { ...event, [field]: value }
With(event, field, value) ==
    [f \in DOMAIN event \cup {field} |-> IF f = field THEN value ELSE event[f]]

\* Mutant of UpdatedFields: an omitted status falls back to 'active', as in
\* POST /admin/events.
UpdatedFieldsStatusDefault(existingEvent, patch, capacityGiven, capacity) ==
    LET e0 == UpdatedEvent(existingEvent, capacityGiven, capacity)
        e1 == IF patch.descriptionGiven THEN With(e0, "description", patch.description)
              ELSE e0
        e2 == IF patch.category # "" THEN With(e1, "type", patch.category) ELSE e1
        e3 == IF patch.priceGiven THEN With(e2, "price", patch.price) ELSE e2
    IN With(e3, "status", IF patch.status # "" THEN patch.status ELSE "active")

\* updatedEvent of PUT /admin/events/:id with the other fields of the model:
\* description, type (category), price and status.
UpdatedFields(existingEvent, patch, capacityGiven, capacity) ==
    LET e0 == UpdatedEvent(existingEvent, capacityGiven, capacity)
        e1 == IF patch.descriptionGiven THEN With(e0, "description", patch.description)
              ELSE e0
        e2 == IF patch.category # "" THEN With(e1, "type", patch.category) ELSE e1
        e3 == IF patch.priceGiven THEN With(e2, "price", patch.price) ELSE e2
    IN IF patch.status # "" THEN With(e3, "status", patch.status) ELSE e3

\* PUT /admin/events/:id: body parsed, kv.get of the event issued.
KvUpdateSubmit(r, eventId, capacityGiven, capacity) ==
    /\ variant = "kv"
    /\ Free(r)
    /\ req' = [req EXCEPT ![r] =
                 [IdleReq EXCEPT !.op = "update", !.pc = "getEvent",
                                 !.userId = adminUserId, !.eventId = eventId,
                                 !.capacityGiven = capacityGiven,
                                 !.capacity = IF capacityGiven THEN capacity ELSE 0]]
    /\ UNCHANGED <<variant, store, nextId>>

\* kv.get returns: 404, or updatedEvent computed and its kv.set issued.
KvUpdateGetEvent(r) ==
    /\ req[r].pc = "getEvent"
    /\ req[r].op = "update"
    /\ req' = [req EXCEPT ![r] =
                 IF req[r].eventId \notin DOMAIN events
                 THEN Respond(@, "notFound")
                 ELSE [@ EXCEPT !.pc = "setEvent", !.event = events[req[r].eventId]]]
    /\ UNCHANGED <<variant, store, nextId>>

\* kv.set(`event:${eventId}`, updatedEvent), then the success response.
KvUpdateSetEvent(r) ==
    /\ req[r].pc = "setEvent"
    /\ req[r].op = "update"
    /\ events' = (req[r].eventId :> UpdatedFields(req[r].event, req[r].patch,
                                                  req[r].capacityGiven,
                                                  req[r].capacity)) @@ events
    /\ req' = [req EXCEPT ![r] = Respond(@, "ok")]
    /\ UNCHANGED <<variant, users, userEmails, bookings, userBookings, initialized, nextId>>

\* Mutant of EventBookings: the filter compares the booking's own id.
EventBookingsById(eventId) == {b \in DOMAIN bookings : bookings[b].id = eventId}

\* bookings.filter(booking => booking.eventId === eventId) over
\* kv.getByPrefix('booking:')
EventBookings(eventId) == {b \in DOMAIN bookings : bookings[b].eventId = eventId}

\* DELETE /admin/events/:id: kv.get of the event issued.
KvDeleteSubmit(r, eventId) ==
    /\ variant = "kv"
    /\ Free(r)
    /\ req' = [req EXCEPT ![r] =
                 [IdleReq EXCEPT !.op = "delete", !.pc = "getEvent",
                                 !.userId = adminUserId, !.eventId = eventId]]
    /\ UNCHANGED <<variant, store, nextId>>

\* kv.get returns: 404, or kv.getByPrefix('booking:') issued.
KvDeleteGetEvent(r) ==
    /\ req[r].pc = "getEvent"
    /\ req[r].op = "delete"
    /\ req' = [req EXCEPT ![r] =
                 IF req[r].eventId \notin DOMAIN events
                 THEN Respond(@, "notFound")
                 ELSE [@ EXCEPT !.pc = "getBookings", !.event = events[req[r].eventId]]]
    /\ UNCHANGED <<variant, store, nextId>>

\* kv.getByPrefix returns: refused when a booking names the event, else kv.del
\* issued.
KvDeleteGetBookings(r) ==
    /\ req[r].pc = "getBookings"
    /\ req' = [req EXCEPT ![r] =
                 IF Cardinality(EventBookings(req[r].eventId)) > 0
                 THEN Respond([@ EXCEPT !.seen = Cardinality(EventBookings(req[r].eventId))],
                              "hasBookings")
                 ELSE [@ EXCEPT !.pc = "delEvent"]]
    /\ UNCHANGED <<variant, store, nextId>>

\* kv.del(`event:${eventId}`), then the success response.
KvDeleteDelEvent(r) ==
    /\ req[r].pc = "delEvent"
    /\ events' = [e \in DOMAIN events \ {req[r].eventId} |-> events[e]]
    /\ req' = [req EXCEPT ![r] = Respond(@, "ok")]
    /\ UNCHANGED <<variant, users, userEmails, bookings, userBookings, initialized, nextId>>

\* Inputs of the catalog requests.  Event "3" is seeded with 25 of 50 sold:
\* capacity 0 or 1 lowers it below the number sold, 60 raises it.
CatalogEventIds == {createdEventId, "3", "no-such-event"}
Capacities == {0, 1, 60}

NextCatalog ==
    /\ \E r \in Reqs :
          \/ \E q \in 1..MaxCap : KvBookSubmit(r, "book", testUserId, createdEventId, q, 0)
          \/ KvBookGetEvent(r)
          \/ KvBookSetBooking(r)
          \/ KvBookSetUserBooking(r)
          \/ KvBookSetEvent(r)
          \/ \E e \in CatalogEventIds, g \in BOOLEAN, c \in Capacities :
                KvUpdateSubmit(r, e, g, c)
          \/ KvUpdateGetEvent(r)
          \/ KvUpdateSetEvent(r)
          \/ \E e \in CatalogEventIds : KvDeleteSubmit(r, e)
          \/ KvDeleteGetEvent(r)
          \/ KvDeleteGetBookings(r)
          \/ KvDeleteDelEvent(r)
    /\ UNCHANGED <<now, auth, client>>

\* The kv store as the catalog requests find it: seeded, with the event an
\* administrator created, and possibly one 1-ticket booking of that event
\* already made (POST /events/:id/book run to completion).
earlierBookingId == "uuid-00"
InitCatalog ==
    /\ variant = "kv"
    /\ \E c \in 1..MaxCap, n \in 0..1 :
          /\ events = (createdEventId :> DecrementedEvent(createdEvent(c), n))
                      @@ sampleEvents("kv")
          /\ bookings = IF n = 0 THEN <<>>
                        ELSE (earlierBookingId :>
                                Booking(earlierBookingId, testUserId, createdEventId, 1,
                                        TotalPrice("book", createdEvent(c), 1, 0)))
          /\ userBookings = IF n = 0 THEN {} ELSE {<<testUserId, earlierBookingId>>}
    /\ users = (testUserId :> testUser) @@ (adminUserId :> adminUser)
    /\ userEmails = ("test@example.com" :> testUserId)
                    @@ ("admin@example.com" :> adminUserId)
    /\ initialized = TRUE
    /\ nextId = 1
    /\ req = [r \in Reqs |-> IdleReq]
    /\ now = 1
    /\ auth = [r \in Reqs |-> NoAuth]
    /\ cartItems = <<>>
    /\ checkout = NoCheckout

SpecCatalog == InitCatalog /\ [][NextCatalog]_vars

(***************************************************************************)
(* Claims about the catalog, checked under SpecCatalog.                    *)
(***************************************************************************)
Sold(event) == event.totalTickets - event.availableTickets

\* The step in which update request r writes the Event.
UpdateWriteStep(r) ==
    /\ req[r].op = "update"
    /\ req[r].pc = "setEvent"
    /\ req'[r].pc = "done"

\* C5: an updateEvent never stores availableTickets < 0; when it lowers the
\* capacity below the number of tickets sold it stores availableTickets = 0
\* (the update has no failing path once the Event was found).
C5_UpdateNeverNegative ==
    [][\A r \in Reqs :
         UpdateWriteStep(r)
         => /\ events'[req[r].eventId].availableTickets >= 0
            /\ (req[r].capacityGiven /\ req[r].capacity < Sold(req[r].event))
               => events'[req[r].eventId].availableTickets = 0]_vars

\* C6: when updateEvent supplies a capacity, the stored Event has
\* totalTickets = capacity and availableTickets = capacity - (oldTotalTickets
\* - oldAvailableTickets), old being the record the handler read, so the
\* number sold is that of the record read; when no other write reached the
\* Event between the handler's read and its write, the number sold in the
\* store is the same before and after the write.
C6_CapacityUpdatePreservesSold ==
    [][\A r \in Reqs :
         (UpdateWriteStep(r) /\ req[r].capacityGiven)
         => LET old == req[r].event
                new == events'[req[r].eventId]
            IN /\ new.totalTickets = req[r].capacity
               /\ new.availableTickets
                    = req[r].capacity - (old.totalTickets - old.availableTickets)
               /\ Sold(new) = Sold(old)
               /\ (getEvent(req[r].eventId).status = "ok"
                   /\ getEvent(req[r].eventId).event = old)
                  => Sold(new) = Sold(events[req[r].eventId])]_vars

\* C6 witness: the seeded Event "3" (50 tickets, 25 sold) after an update to
\* capacity 60: 35 available.
C6_Witness ==
    /\ \E r \in Reqs : /\ Answered(r) /\ req[r].op = "update" /\ req[r].status = "ok"
                       /\ req[r].eventId = "3" /\ req[r].capacity = 60
    /\ "3" \in DOMAIN events
    /\ events["3"].totalTickets = 60
    /\ events["3"].availableTickets = 35

\* C7: a deleteEvent whose scan of the bookings finds none that names the Event
\* goes on to delete it, succeeds, and getEvent then answers not-found; a
\* deleteEvent whose scan finds at least one Booking of the Event fails and
\* leaves the Event record as it was, still retrievable.
C7_DeleteOnlyWithoutBookings ==
    [][\A r \in Reqs :
         /\ (req[r].pc = "getBookings" /\ req'[r] # req[r])
            => IF \E b \in DOMAIN bookings : bookings[b].eventId = req[r].eventId
               THEN /\ req'[r].pc = "done"
                    /\ req'[r].status = "hasBookings"
                    /\ events' = events
                    /\ (getEvent(req[r].eventId).status = "ok"
                        => getEvent(req[r].eventId)' = getEvent(req[r].eventId))
               ELSE req'[r].pc = "delEvent"
         /\ (req[r].pc = "delEvent" /\ req'[r] # req[r])
            => /\ req'[r].pc = "done"
               /\ req'[r].status = "ok"
               /\ getEvent(req[r].eventId)'.status = "notFound"
               /\ \A e \in DOMAIN events \ {req[r].eventId} :
                     e \in DOMAIN events' /\ events'[e] = events[e]]_vars

\* C7 witness: one delete was refused because of a Booking and the Event is
\* still there, and another delete removed an Event without bookings.
C7_Witness ==
    \E r, s \in Reqs :
       /\ req[r].op = "delete" /\ req[r].status = "hasBookings"
       /\ getEvent(req[r].eventId).status = "ok"
       /\ \E b \in DOMAIN bookings : bookings[b].eventId = req[r].eventId
       /\ req[s].op = "delete" /\ req[s].status = "ok"
       /\ getEvent(req[s].eventId).status = "notFound"

(***************************************************************************)
(* Identity: sign-up, sign-in and social sign-in.                          *)
(***************************************************************************)
\* if (!email || !password)
MissingCredentials(email, password) == email = "" \/ password = ""

\* Mutant of KvEmailTaken: the lookup reads the user key, never the index.
KvEmailTakenWrongKey(email) == email \in DOMAIN users /\ users[email].id # ""

\* kv: existingUser = await kv.get(`user_email:${email}`); if (existingUser)
KvEmailTaken(email) == email \in DOMAIN userEmails /\ userEmails[email] # ""

\* mem, mock: userEmails.has(email)
EmailTaken(email) == email \in DOMAIN userEmails

\* Mutant of PasswordMatches: the stored digest compared with the password text.
PasswordMatchesUnhashed(user, password) == user.password = password

\* !(user.password !== hashedPassword), hashedPassword = hashPassword(password)
PasswordMatches(user, password) == user.password = hashPassword(password)

\* Mutant of NewUser: the record is stored without its email.
NewUserNoEmail(id, email, password) == User(id, "", hashPassword(password), FALSE)

\* The user record a sign-up stores.
NewUser(id, email, password) == User(id, email, hashPassword(password), FALSE)

\* kv: POST /signup: body parsed and validated, kv.get of the email index issued.
KvSignupSubmit(r, email, password) ==
    /\ variant = "kv"
    /\ Free(r)
    /\ LET rec == [IdleReq EXCEPT !.op = "signup", !.email = email,
                                  !.password = password]
       IN req' = [req EXCEPT ![r] =
                    IF MissingCredentials(email, password)
                    THEN Respond(rec, "validation")
                    ELSE [rec EXCEPT !.pc = "getEmail"]]
    /\ UNCHANGED <<variant, store, nextId>>

\* kv.get(`user_email:${email}`) returns: duplicate refused, or user id drawn,
\* password hashed and kv.set of the user issued.
KvSignupGetEmail(r) ==
    /\ req[r].pc = "getEmail"
    /\ req[r].op = "signup"
    /\ IF KvEmailTaken(req[r].email)
       THEN /\ req' = [req EXCEPT ![r] = Respond(@, "exists")]
            /\ UNCHANGED nextId
       ELSE /\ req' = [req EXCEPT ![r].pc = "setUser", ![r].id = randomUUID(nextId)]
            /\ nextId' = nextId + 1
    /\ UNCHANGED <<variant, store>>

\* kv.set(`user:${userId}`, user)
KvSignupSetUser(r) ==
    /\ req[r].pc = "setUser"
    /\ users' = (req[r].id :> NewUser(req[r].id, req[r].email, req[r].password))
                @@ users
    /\ req' = [req EXCEPT ![r].pc = "setEmail"]
    /\ UNCHANGED <<variant, events, userEmails, bookings, userBookings, initialized, nextId>>

\* kv.set(`user_email:${email}`, userId), then the response with the token.
KvSignupSetEmail(r) ==
    /\ req[r].pc = "setEmail"
    /\ userEmails' = (req[r].email :> req[r].id) @@ userEmails
    /\ req' = [req EXCEPT ![r] =
                 Respond([@ EXCEPT !.token = generateToken(req[r].id)], "ok")]
    /\ UNCHANGED <<variant, events, users, bookings, userBookings, initialized, nextId>>

\* mem: Sign up; mock: MockServer.signUp (which validates nothing).  Up to the
\* await on hashPassword: validation, duplicate check, user id drawn.
SignupSubmit(r, email, password) ==
    /\ variant \in {"mem", "mock"}
    /\ Free(r)
    /\ initialized
    /\ LET rec == [IdleReq EXCEPT !.op = "signup", !.email = email,
                                  !.password = password]
       IN IF variant = "mem" /\ MissingCredentials(email, password)
          THEN /\ req' = [req EXCEPT ![r] = Respond(rec, "validation")]
               /\ UNCHANGED nextId
          ELSE IF EmailTaken(email)
          THEN /\ req' = [req EXCEPT ![r] = Respond(rec, "exists")]
               /\ UNCHANGED nextId
          ELSE /\ req' = [req EXCEPT ![r] =
                            [rec EXCEPT !.pc = "hash", !.id = randomUUID(nextId)]]
               /\ nextId' = nextId + 1
    /\ UNCHANGED <<variant, store>>

\* hashPassword resolved: users.set, userEmails.set, the response with the token.
SignupStore(r) ==
    /\ req[r].pc = "hash"
    /\ req[r].op = "signup"
    /\ users' = (req[r].id :> NewUser(req[r].id, req[r].email, req[r].password))
                @@ users
    /\ userEmails' = (req[r].email :> req[r].id) @@ userEmails
    /\ req' = [req EXCEPT ![r] =
                 Respond([@ EXCEPT !.token = generateToken(req[r].id)], "ok")]
    /\ UNCHANGED <<variant, events, bookings, userBookings, initialized, nextId>>

\* The end of every sign-in: digest comparison, then the token or the
\* invalid-credentials answer.
SigninAnswer(rec, user) ==
    IF PasswordMatches(user, rec.password)
    THEN Respond([rec EXCEPT !.user = user, !.token = generateToken(rec.id)], "ok")
    ELSE Respond([rec EXCEPT !.user = user], "invalidCredentials")

\* kv: POST /signin: body parsed and validated, kv.get of the email index issued.
KvSigninSubmit(r, email, password) ==
    /\ variant = "kv"
    /\ Free(r)
    /\ LET rec == [IdleReq EXCEPT !.op = "signin", !.email = email,
                                  !.password = password]
       IN req' = [req EXCEPT ![r] =
                    IF MissingCredentials(email, password)
                    THEN Respond(rec, "validation")
                    ELSE [rec EXCEPT !.pc = "getEmail"]]
    /\ UNCHANGED <<variant, store, nextId>>

\* userId = await kv.get(`user_email:${email}`); if (!userId) 401
KvSigninGetEmail(r) ==
    /\ req[r].pc = "getEmail"
    /\ req[r].op = "signin"
    /\ req' = [req EXCEPT ![r] =
                 IF ~KvEmailTaken(req[r].email)
                 THEN Respond(@, "invalidCredentials")
                 ELSE [@ EXCEPT !.pc = "getUser", !.id = userEmails[req[r].email]]]
    /\ UNCHANGED <<variant, store, nextId>>

\* user = await kv.get(`user:${userId}`); if (!user) 401 'User not found';
\* then the digest comparison.
KvSigninGetUser(r) ==
    /\ req[r].pc = "getUser"
    /\ req' = [req EXCEPT ![r] =
                 IF req[r].id \notin DOMAIN users
                 THEN Respond(@, "userNotFound")
                 ELSE SigninAnswer(@, users[req[r].id])]
    /\ UNCHANGED <<variant, store, nextId>>

\* mem: Sign in; mock: MockServer.signIn (which validates nothing).  Up to the
\* await on hashPassword: validation and the two map lookups.
SigninSubmit(r, email, password) ==
    /\ variant \in {"mem", "mock"}
    /\ Free(r)
    /\ initialized
    /\ LET rec == [IdleReq EXCEPT !.op = "signin", !.email = email,
                                  !.password = password]
       IN req' = [req EXCEPT ![r] =
                    IF variant = "mem" /\ MissingCredentials(email, password)
                    THEN Respond(rec, "validation")
                    ELSE IF ~EmailTaken(email) \/ userEmails[email] = ""
                    THEN Respond(rec, "invalidCredentials")
                    ELSE IF userEmails[email] \notin DOMAIN users
                    THEN Respond([rec EXCEPT !.id = userEmails[email]], "userNotFound")
                    ELSE [rec EXCEPT !.pc = "hash", !.id = userEmails[email],
                                     !.user = users[userEmails[email]]]]
    /\ UNCHANGED <<variant, store, nextId>>

\* hashPassword resolved: the digest comparison on the user object read before.
SigninCompare(r) ==
    /\ req[r].pc = "hash"
    /\ req[r].op = "signin"
    /\ req' = [req EXCEPT ![r] = SigninAnswer(@, req[r].user)]
    /\ UNCHANGED <<variant, store, nextId>>

\* mockSocialUsers[provider]
socialUserId(provider) ==
    CASE provider = "google" -> "google-user-123"
      [] provider = "facebook" -> "facebook-user-123"
      [] provider = "github" -> "github-user-123"
socialEmail(provider) ==
    CASE provider = "google" -> "user@gmail.com"
      [] provider = "facebook" -> "user@facebook.com"
      [] provider = "github" -> "user@github.com"

\* mem: Social authentication; mock: MockServer.signInWithSocial.  No await
\* between the index lookup and the two writes: one step.  The account is
\* stored with the empty string as its password.
SocialSignin(r, provider) ==
    /\ variant \in {"mem", "mock"}
    /\ Free(r)
    /\ initialized
    /\ LET email == socialEmail(provider)
           known == EmailTaken(email) /\ userEmails[email] # ""
           userId == IF known THEN userEmails[email] ELSE socialUserId(provider)
       IN /\ users' = IF known THEN users
                      ELSE (userId :> User(userId, email, "", FALSE)) @@ users
          /\ userEmails' = IF known THEN userEmails
                           ELSE (email :> userId) @@ userEmails
          /\ req' = [req EXCEPT ![r] =
                       Respond([IdleReq EXCEPT !.op = "social", !.email = email,
                                               !.id = userId,
                                               !.token = generateToken(userId)],
                               "ok")]
    /\ UNCHANGED <<variant, events, bookings, userBookings, initialized, nextId>>

\* Inputs of the identity requests.
Emails == {"test@example.com", "new@example.com", "user@gmail.com", ""}
Passwords == {"password123", "secret1", ""}

NextIdentity ==
    /\ \E r \in Reqs :
          \/ \E e \in Emails, p \in Passwords : KvSignupSubmit(r, e, p)
          \/ KvSignupGetEmail(r)
          \/ KvSignupSetUser(r)
          \/ KvSignupSetEmail(r)
          \/ \E e \in Emails, p \in Passwords : SignupSubmit(r, e, p)
          \/ SignupStore(r)
          \/ \E e \in Emails, p \in Passwords : KvSigninSubmit(r, e, p)
          \/ KvSigninGetEmail(r)
          \/ KvSigninGetUser(r)
          \/ \E e \in Emails, p \in Passwords : SigninSubmit(r, e, p)
          \/ SigninCompare(r)
          \/ SocialSignin(r, "google")
    /\ UNCHANGED <<now, auth, client>>

\* The identity requests do not touch the events: one capacity suffices.
InitIdentity == Init /\ events[createdEventId].totalTickets = 1

SpecIdentity == InitIdentity /\ [][NextIdentity]_vars

(***************************************************************************)
(* Claims about identity, checked under SpecIdentity.                      *)
(***************************************************************************)
\* Request r is answered in this step.
AnsweredNow(r) == req[r].pc # "done" /\ req'[r].pc = "done"

\* C8: a sign-up whose email is in the email index when the handler takes the
\* request (and, on the kv server, when its index lookup returns) fails: the
\* lookup answers "already exists" (or the validation error came first), no
\* User record is created, and the User records and the email index stay as
\* they were.
C8_DuplicateSignupRejected ==
    [][\A r \in Reqs :
         /\ (/\ req[r].pc = "idle"
             /\ req'[r].op = "signup"
             /\ req'[r].email \in DOMAIN userEmails)
            => /\ req'[r].status # "ok"
               /\ req'[r].pc = "done" \/ (variant = "kv" /\ req'[r].pc = "getEmail")
               /\ req'[r].pc = "done" => req'[r].status \in {"exists", "validation"}
               /\ users' = users
               /\ userEmails' = userEmails
         /\ (/\ req[r].pc = "getEmail"
             /\ req[r].op = "signup"
             /\ req'[r] # req[r]
             /\ req[r].email \in DOMAIN userEmails)
            => /\ req'[r].pc = "done"
               /\ req'[r].status = "exists"
               /\ req'[r].token = NoToken
               /\ users' = users
               /\ userEmails' = userEmails]_vars

\* C8 witness: on the kv server a sign-up with the seeded test account's email
\* was refused, and the account and its index entry are as seeded.
C8_Witness ==
    /\ variant = "kv"
    /\ \E r \in Reqs : /\ req[r].op = "signup"
                       /\ req[r].status = "exists"
                       /\ req[r].email = "test@example.com"
    /\ users[testUserId] = testUser
    /\ userEmails["test@example.com"] = testUserId
    /\ Cardinality(DOMAIN users) = 2

\* C9: on the kv server, once every request is answered, no two User records
\* have the same email and the email index maps each User's email to that User.
C9_EmailUniqueUnderInterleaving ==
    (variant = "kv" /\ \A r \in Reqs : req[r].pc \in {"idle", "done"})
    => /\ \A u1, u2 \in DOMAIN users :
             users[u1].email = users[u2].email => u1 = u2
       /\ \A u \in DOMAIN users :
             /\ users[u].email \in DOMAIN userEmails
             /\ userEmails[users[u].email] = u

\* C10: a sign-in step changes no stored record; a sign-in carries a token only
\* if it succeeded for a User whose email is the one supplied, registered in the
\* index, and whose stored digest is the digest of the supplied password; a
\* sign-in with both fields supplied whose email is not in the index, or whose
\* password's digest differs from the stored one, is answered invalid-credentials
\* without a token.
C10_SigninOnlyWithMatchingDigest ==
    [][\A r \in Reqs :
         (req'[r].op = "signin" /\ req'[r] # req[r])
         => /\ UNCHANGED store
            /\ req'[r].token # NoToken
               => /\ req'[r].status = "ok"
                  /\ req'[r].email \in DOMAIN userEmails
                  /\ \E u \in DOMAIN users :
                        /\ req'[r].token = generateToken(u)
                        /\ users[u].email = req'[r].email
                        /\ users[u].password = hashPassword(req'[r].password)
            /\ (/\ AnsweredNow(r)
                /\ variant = "mock" \/ ~MissingCredentials(req'[r].email, req'[r].password)
                /\ \/ req'[r].email \notin DOMAIN userEmails
                   \/ /\ req'[r].id \in DOMAIN users
                      /\ users[req'[r].id].password # hashPassword(req'[r].password))
               => /\ req'[r].status = "invalidCredentials"
                  /\ req'[r].token = NoToken]_vars

\* C10 witness: one sign-in to the test account succeeded with its password
\* and holds a token, another with a wrong password was refused.
C10_Witness ==
    \E r, s \in Reqs :
       /\ req[r].op = "signin" /\ req[r].status = "ok"
       /\ req[r].email = "test@example.com" /\ req[r].password = "password123"
       /\ req[r].token = generateToken(testUserId)
       /\ req[s].op = "signin" /\ req[s].status = "invalidCredentials"
       /\ req[s].email = "test@example.com" /\ req[s].password = "secret1"
       /\ req[s].token = NoToken

(***************************************************************************)
(* Authentication: the Authorization header, the clock and the routes that *)
(* ask for a token.                                                        *)
(***************************************************************************)
\* Days of clock the model covers.
MaxDays == 1

\* The instants at which the model samples Date.now(): the first three
\* milliseconds of each day, so that a token issued at one of them meets the
\* instant before its expiry, its expiry and the instant after.
Instants == {k * TokenLifetime + j : k \in 0..MaxDays, j \in 1..3}

\* Time passes between two requests or two steps of a handler.
Tick ==
    /\ \E t \in Instants : t > now /\ now' = t
    /\ UNCHANGED <<variant, store, nextId, req, auth, client>>

\* kv: requireAuth.  The subject it sets, "" for each of its 401 answers.
requireAuth(header) ==
    IF ~header.present THEN ""
    ELSE IF header.scheme # "Bearer " THEN ""
    ELSE IF header.token = NoToken THEN ""
    ELSE verifyToken(header.token)

\* mem: if (!authHeader || !authHeader.startsWith('Bearer ')) 401;
\* payload = verifyToken(authHeader.substring(7)); if (!payload) 401
BearerPayload(header) ==
    IF ~header.present \/ header.scheme # "Bearer " THEN ""
    ELSE verifyToken(header.token)

\* The subject the variant's check yields; MockServer is handed the token
\* itself and calls verifyToken on it.
Subject(header) ==
    CASE variant = "kv" -> requireAuth(header)
      [] variant = "mem" -> BearerPayload(header)
      [] variant = "mock" -> verifyToken(header.token)

\* The check ran for request r, at the present instant.
Checked(r, header) ==
    auth' = [auth EXCEPT ![r] = [header |-> header, at |-> now,
                                 userId |-> Subject(header)]]

\* The 401 answer (MockServer: Error('Invalid token')); nothing is written.
Unauthenticated(r, op) ==
    /\ req' = [req EXCEPT ![r] = Respond([IdleReq EXCEPT !.op = op], "unauthenticated")]
    /\ UNCHANGED <<variant, store, nextId>>

\* POST /events/:id/book and POST /bookings behind the check.
AuthBooking(r, header, op, eventId, quantity, totalAmount) ==
    /\ Free(r)
    /\ variant = "kv" \/ op = "bookings"
    /\ variant = "mock" => initialized
    /\ Checked(r, header)
    /\ IF Subject(header) = ""
       THEN Unauthenticated(r, op)
       ELSE \/ KvBookSubmit(r, op, Subject(header), eventId, quantity, totalAmount)
            \/ MemCreateBooking(r, Subject(header), eventId, quantity, totalAmount)
            \/ MockCreateBooking(r, Subject(header), eventId, quantity, totalAmount)
    /\ UNCHANGED <<now, client>>

\* The bookings of a user, as the listing counts them.
OwnBookings(userId) == {b \in DOMAIN bookings : bookings[b].userId = userId}

\* GET /user/bookings behind the check.  mem, mock: the filter over the
\* bookings map, one step.  kv: kv.getByPrefix of the user's index issued.
AuthListBookings(r, header) ==
    /\ Free(r)
    /\ variant = "mock" => initialized
    /\ Checked(r, header)
    /\ IF Subject(header) = ""
       THEN Unauthenticated(r, "listBookings")
       ELSE /\ LET rec == [IdleReq EXCEPT !.op = "listBookings",
                                          !.userId = Subject(header)]
               IN req' = [req EXCEPT ![r] =
                            IF variant = "kv" THEN [rec EXCEPT !.pc = "listIds"]
                            ELSE Respond([rec EXCEPT !.seen =
                                            Cardinality(OwnBookings(rec.userId))], "ok")]
            /\ UNCHANGED <<variant, store, nextId>>
    /\ UNCHANGED <<now, client>>

\* kv: the index scan returns; the reads of the listed bookings and of their
\* events write nothing and are taken with it.
KvListAnswer(r) ==
    /\ req[r].pc = "listIds"
    /\ LET ids == {b \in DOMAIN bookings : <<req[r].userId, b>> \in userBookings}
       IN req' = [req EXCEPT ![r] = Respond([@ EXCEPT !.seen = Cardinality(ids)], "ok")]
    /\ UNCHANGED <<variant, store, nextId, now, auth, client>>

\* Mutant of UpdatedUser: the record is stored without its password digest.
UpdatedUserNoPassword(user, firstName) ==
    [user EXCEPT !.firstName = IF firstName # "" THEN firstName ELSE user.firstName,
                 !.password = ""]

\* { ...user, firstName: firstName || user.firstName }
UpdatedUser(user, firstName) ==
    [user EXCEPT !.firstName = IF firstName # "" THEN firstName ELSE user.firstName]

\* kv: GET ("profileGet") and PUT ("profilePut") /user/profile behind the
\* check: kv.get of the user issued.  firstName is the body's.
KvProfileSubmit(r, header, op, firstName) ==
    /\ variant = "kv"
    /\ Free(r)
    /\ Checked(r, header)
    /\ IF Subject(header) = ""
       THEN Unauthenticated(r, op)
       ELSE /\ req' = [req EXCEPT ![r] =
                         [IdleReq EXCEPT !.op = op, !.pc = "getProfile",
                                         !.userId = Subject(header),
                                         !.firstName = firstName]]
            /\ UNCHANGED <<variant, store, nextId>>
    /\ UNCHANGED <<now, client>>

\* kv.get(`user:${userId}`) returns: 404, the profile, or the kv.set issued.
KvProfileGetUser(r) ==
    /\ req[r].pc = "getProfile"
    /\ req' = [req EXCEPT ![r] =
                 IF req[r].userId \notin DOMAIN users THEN Respond(@, "notFound")
                 ELSE IF req[r].op = "profileGet"
                 THEN Respond([@ EXCEPT !.user = users[req[r].userId]], "ok")
                 ELSE [@ EXCEPT !.pc = "setProfile", !.user = users[req[r].userId]]]
    /\ UNCHANGED <<variant, store, nextId, now, auth, client>>

\* kv.set(`user:${userId}`, updatedUser), then the response.
KvProfileSetUser(r) ==
    /\ req[r].pc = "setProfile"
    /\ users' = (req[r].userId :> UpdatedUser(req[r].user, req[r].firstName)) @@ users
    /\ req' = [req EXCEPT ![r] = Respond(@, "ok")]
    /\ UNCHANGED <<variant, events, userEmails, bookings, userBookings, initialized,
                   nextId, now, auth, client>>

(***************************************************************************)
(* Administration: the admin check and POST /admin/events.                 *)
(***************************************************************************)
\* !(!user || !user.isAdmin), user = the record stored under the subject id
IsAdmin(userId) == userId \in DOMAIN users /\ users[userId].isAdmin

\* Mutant of MissingEventFields: the price is not looked at.
MissingEventFieldsNoPrice(body) ==
    body.title = "" \/ body.date = "" \/ body.location = ""

\* if (!title || !date || !location || price === undefined)
MissingEventFields(body) ==
    body.title = "" \/ body.date = "" \/ body.location = "" \/ ~body.priceGiven

\* capacity || 100
CapacityOrDefault(capacityGiven, capacity) ==
    IF capacityGiven /\ capacity # 0 THEN capacity ELSE 100

\* The event POST /admin/events stores, for the fields of the model.
\* MockServer.createAdminEvent builds it without a status.
NewEvent(v, body, capacityGiven, capacity) ==
    IF v = "mock"
    THEN [totalTickets |-> CapacityOrDefault(capacityGiven, capacity),
          availableTickets |-> CapacityOrDefault(capacityGiven, capacity),
          price |-> body.price,
          description |-> body.description,
          type |-> IF body.category # "" THEN body.category ELSE "General"]
    ELSE [totalTickets |-> CapacityOrDefault(capacityGiven, capacity),
          availableTickets |-> CapacityOrDefault(capacityGiven, capacity),
          price |-> body.price,
          description |-> body.description,
          type |-> IF body.category # "" THEN body.category ELSE "General",
          status |-> IF body.status # "" THEN body.status ELSE "active"]

AdminOps == {"stats", "adminEvents", "adminBookings", "create", "update", "delete"}

\* The admin request as the handler holds it.
AdminReq(op, userId, eventId, capacityGiven, capacity, body) ==
    [IdleReq EXCEPT !.op = op, !.userId = userId, !.eventId = eventId,
                    !.capacityGiven = capacityGiven,
                    !.capacity = IF capacityGiven THEN capacity ELSE 0,
                    !.body = body]

\* kv: an /admin/ route; requireAuth ran, requireAdmin's kv.get issued.
KvAdminSubmit(r, header, op, eventId, capacityGiven, capacity, body) ==
    /\ variant = "kv"
    /\ Free(r)
    /\ Checked(r, header)
    /\ IF Subject(header) = ""
       THEN Unauthenticated(r, op)
       ELSE /\ req' = [req EXCEPT ![r] =
                         [AdminReq(op, Subject(header), eventId, capacityGiven,
                                   capacity, body) EXCEPT !.pc = "requireAdmin"]]
            /\ UNCHANGED <<variant, store, nextId>>
    /\ UNCHANGED <<now, client>>

\* kv: requireAdmin's kv.get returns: 403, or the handler starts and runs to
\* its first store call (create: the body is validated and the id drawn).
KvRequireAdmin(r) ==
    /\ req[r].pc = "requireAdmin"
    /\ IF ~IsAdmin(req[r].userId)
       THEN /\ req' = [req EXCEPT ![r] = Respond(@, "forbidden")]
            /\ UNCHANGED nextId
       ELSE IF req[r].op = "create"
       THEN IF MissingEventFields(req[r].body)
            THEN /\ req' = [req EXCEPT ![r] = Respond(@, "validation")]
                 /\ UNCHANGED nextId
            ELSE /\ req' = [req EXCEPT ![r].pc = "setNewEvent",
                                       ![r].id = randomUUID(nextId)]
                 /\ nextId' = nextId + 1
       ELSE /\ req' = [req EXCEPT ![r].pc =
                         IF req[r].op \in {"update", "delete"} THEN "getEvent"
                         ELSE "adminRead"]
            /\ UNCHANGED nextId
    /\ UNCHANGED <<variant, store, now, auth, client>>

\* kv.set(`event:${eventId}`, event), then the success response.
KvCreateSetEvent(r) ==
    /\ req[r].pc = "setNewEvent"
    /\ events' = (req[r].id :> NewEvent(variant, req[r].body, req[r].capacityGiven,
                                        req[r].capacity)) @@ events
    /\ req' = [req EXCEPT ![r] = Respond(@, "ok")]
    /\ UNCHANGED <<variant, users, userEmails, bookings, userBookings, initialized,
                   nextId, now, auth, client>>

\* kv: admin stats and the two admin listings: the scans return, the answer.
KvAdminRead(r) ==
    /\ req[r].pc = "adminRead"
    /\ req' = [req EXCEPT ![r] =
                 Respond([@ EXCEPT !.seen = Cardinality(DOMAIN bookings)], "ok")]
    /\ UNCHANGED <<variant, store, nextId, now, auth, client>>

\* createAdminEvent of the in-memory server and of MockServer once the admin
\* check passed: no await before events.set, one step.
CreateEventNow(r, rec) ==
    IF MissingEventFields(rec.body)
    THEN /\ req' = [req EXCEPT ![r] = Respond(rec, "validation")]
         /\ UNCHANGED <<events, nextId>>
    ELSE /\ events' = (randomUUID(nextId) :>
                          NewEvent(variant, rec.body, rec.capacityGiven, rec.capacity))
                      @@ events
         /\ nextId' = nextId + 1
         /\ req' = [req EXCEPT ![r] = Respond([rec EXCEPT !.id = randomUUID(nextId)], "ok")]

\* mock: getAdminStats, getAdminEvents, createAdminEvent.
MockAdmin(r, header, op, capacityGiven, capacity, body) ==
    /\ variant = "mock"
    /\ op \in {"stats", "adminEvents", "create"}
    /\ Free(r)
    /\ initialized
    /\ Checked(r, header)
    /\ LET rec == AdminReq(op, Subject(header), "", capacityGiven, capacity, body)
       IN IF Subject(header) = ""
          THEN Unauthenticated(r, op)
          ELSE IF ~IsAdmin(Subject(header))
          THEN /\ req' = [req EXCEPT ![r] = Respond(rec, "forbidden")]
               /\ UNCHANGED <<events, nextId>>
          ELSE IF op = "create" THEN CreateEventNow(r, rec)
          ELSE /\ req' = [req EXCEPT ![r] =
                            Respond([rec EXCEPT !.seen = Cardinality(DOMAIN bookings)], "ok")]
               /\ UNCHANGED <<events, nextId>>
    /\ UNCHANGED <<variant, users, userEmails, bookings, userBookings, initialized, now, client>>

\* In-memory server: the path of a request as its segments after the
\* function's prefix.  path.endsWith('/a/b') and path.includes('/a/').
EndsWith(path, suffix) ==
    /\ Len(path) >= Len(suffix)
    /\ SubSeq(path, Len(path) - Len(suffix) + 1, Len(path)) = suffix
Includes(path, segment) == \E i \in 1..(Len(path) - 1) : path[i] = segment

\* The chain of if statements of the in-memory server: the first that matches
\* serves the request.
MemRoute(method, path) ==
    IF EndsWith(path, <<"health">>) THEN "health"
    ELSE IF EndsWith(path, <<"events">>) /\ method = "GET" THEN "events"
    ELSE IF Includes(path, "events") /\ method = "GET" THEN "event"
    ELSE IF EndsWith(path, <<"signup">>) /\ method = "POST" THEN "signup"
    ELSE IF EndsWith(path, <<"signin">>) /\ method = "POST" THEN "signin"
    ELSE IF EndsWith(path, <<"auth", "social">>) /\ method = "POST" THEN "social"
    ELSE IF EndsWith(path, <<"bookings">>) /\ method = "POST" THEN "bookings"
    ELSE IF EndsWith(path, <<"user", "bookings">>) /\ method = "GET" THEN "userBookings"
    ELSE IF Includes(path, "admin") THEN "admin"
    ELSE "default"

\* The request a client sends for an admin operation.
AdminMethod(op) ==
    CASE op \in {"stats", "adminEvents", "adminBookings"} -> "GET"
      [] op = "create" -> "POST"
      [] op = "update" -> "PUT"
      [] op = "delete" -> "DELETE"
AdminPath(op, eventId) ==
    CASE op = "stats" -> <<"admin", "stats">>
      [] op = "adminBookings" -> <<"admin", "bookings">>
      [] op \in {"adminEvents", "create"} -> <<"admin", "events">>
      [] op \in {"update", "delete"} -> <<"admin", "events", eventId>>

\* mem: a request for an admin operation.  The route that matches first
\* serves it: the public event list answers GET .../admin/events without any
\* check; the /admin/ block checks the token and the admin flag, serves stats
\* and POST .../admin/events, and lets everything else fall through to the
\* default response.
MemAdmin(r, header, op, eventId, capacityGiven, capacity, body) ==
    /\ variant = "mem"
    /\ Free(r)
    /\ LET route == MemRoute(AdminMethod(op), AdminPath(op, eventId))
           rec == AdminReq(op, Subject(header), eventId, capacityGiven, capacity, body)
       IN IF route = "events"
          THEN /\ req' = [req EXCEPT ![r] =
                            Respond([rec EXCEPT !.userId = "",
                                                !.seen = Cardinality(DOMAIN events)], "ok")]
               /\ UNCHANGED <<events, nextId, auth>>
          ELSE /\ route = "admin"
               /\ Checked(r, header)
               /\ IF Subject(header) = ""
                  THEN Unauthenticated(r, op)
                  ELSE IF ~IsAdmin(Subject(header))
                  THEN /\ req' = [req EXCEPT ![r] = Respond(rec, "forbidden")]
                       /\ UNCHANGED <<events, nextId>>
                  ELSE IF op = "stats"
                  THEN /\ req' = [req EXCEPT ![r] =
                                    Respond([rec EXCEPT !.seen =
                                               Cardinality(DOMAIN bookings)], "ok")]
                       /\ UNCHANGED <<events, nextId>>
                  ELSE IF op = "create" THEN CreateEventNow(r, rec)
                  ELSE /\ req' = [req EXCEPT ![r] = Respond(rec, "default")]
                       /\ UNCHANGED <<events, nextId>>
    /\ UNCHANGED <<variant, users, userEmails, bookings, userBookings, initialized, now, client>>

\* mem: POST .../admin/bookings.  path.endsWith('/bookings') comes before the
\* /admin/ block in the chain, so the booking handler serves it: the token
\* check, the validation and the booking, no admin check.
MemPostAdminBookings(r, header, eventId, quantity) ==
    /\ variant = "mem"
    /\ Free(r)
    /\ MemRoute("POST", <<"admin", "bookings">>) = "bookings"
    /\ Checked(r, header)
    /\ IF Subject(header) = ""
       THEN Unauthenticated(r, "postAdminBookings")
       ELSE /\ LET rec == [IdleReq EXCEPT !.op = "postAdminBookings",
                                          !.userId = Subject(header),
                                          !.eventId = eventId,
                                          !.quantity = quantity]
               IN IF eventId = "" \/ InvalidQuantity(quantity)
                  THEN /\ req' = [req EXCEPT ![r] = Respond(rec, "validation")]
                       /\ UNCHANGED <<events, bookings, nextId>>
                  ELSE CreateBookingNow(r, rec)
            /\ UNCHANGED <<variant, users, userEmails, userBookings, initialized>>
    /\ UNCHANGED <<now, client>>

\* Inputs of the admin requests: a token generated now for the administrator,
\* for the seeded user and for an id no user has; the bodies of
\* POST /admin/events: complete, each required field missing in turn, the
\* optional fields given, capacity 0.
AdminHeaders ==
    {Header(TRUE, "Bearer ", generateToken(u)) :
        u \in {adminUserId, testUserId, "no-such-user"}}
FullBody == Body("Expo", "2025-06-01", "Pune", TRUE, 2500, "", "", "")
CreateBodies ==
    {FullBody,
     [FullBody EXCEPT !.title = ""], [FullBody EXCEPT !.date = ""],
     [FullBody EXCEPT !.location = ""], [FullBody EXCEPT !.priceGiven = FALSE],
     [FullBody EXCEPT !.price = 0],
     [FullBody EXCEPT !.description = "Trade fair", !.category = "Business",
                      !.status = "draft"]}
\* capacity omitted, capacity 0 and a positive capacity.
CreateCapacities == {<<FALSE, 0>>, <<TRUE, 0>>, <<TRUE, MaxCap>>}
AdminHeader == Header(TRUE, "Bearer ", generateToken(adminUserId))

NextAdmin ==
    /\ \E r \in Reqs :
          \/ \E h \in AdminHeaders, op \in AdminOps \ {"create"} :
                \/ KvAdminSubmit(r, h, op, createdEventId, TRUE, 1, NoBody)
                \/ MemAdmin(r, h, op, createdEventId, TRUE, 1, NoBody)
                \/ MockAdmin(r, h, op, TRUE, 1, NoBody)
          \/ \E h \in AdminHeaders :
                \/ KvAdminSubmit(r, h, "create", "", TRUE, MaxCap, FullBody)
                \/ MemAdmin(r, h, "create", "", TRUE, MaxCap, FullBody)
                \/ MockAdmin(r, h, "create", TRUE, MaxCap, FullBody)
          \/ \E b \in CreateBodies :
                \/ KvAdminSubmit(r, AdminHeader, "create", "", TRUE, MaxCap, b)
                \/ MemAdmin(r, AdminHeader, "create", "", TRUE, MaxCap, b)
                \/ MockAdmin(r, AdminHeader, "create", TRUE, MaxCap, b)
          \/ \E c \in CreateCapacities :
                \/ KvAdminSubmit(r, AdminHeader, "create", "", c[1], c[2], FullBody)
                \/ MemAdmin(r, AdminHeader, "create", "", c[1], c[2], FullBody)
                \/ MockAdmin(r, AdminHeader, "create", c[1], c[2], FullBody)
          \/ \E h \in AdminHeaders : MemPostAdminBookings(r, h, createdEventId, 1)
          \/ KvRequireAdmin(r)
          \/ KvCreateSetEvent(r)
          \/ KvAdminRead(r)
          \/ (KvUpdateGetEvent(r) /\ UNCHANGED <<now, auth, client>>)
          \/ (KvUpdateSetEvent(r) /\ UNCHANGED <<now, auth, client>>)
          \/ (KvDeleteGetEvent(r) /\ UNCHANGED <<now, auth, client>>)
          \/ (KvDeleteGetBookings(r) /\ UNCHANGED <<now, auth, client>>)
          \/ (KvDeleteDelEvent(r) /\ UNCHANGED <<now, auth, client>>)

SpecAdmin == InitIdentity /\ [][NextAdmin]_vars

(***************************************************************************)
(* Claims about administration, checked under SpecAdmin.                   *)
(***************************************************************************)
\* Request r is answered in this step.
AnsweredInStep(r) == req[r].pc # "done" /\ req'[r].pc = "done"

\* C14: a request for an admin operation is answered with success, or changes
\* the events, only when its token's subject is a stored User with isAdmin
\* true; when the subject is no stored User or is not an admin it is answered
\* Forbidden and the events stay as they were.
C14_AdminOnly ==
    [][\A r \in Reqs :
         (req'[r] # req[r] /\ req'[r].op \in AdminOps)
         => /\ (events' # events \/ (AnsweredInStep(r) /\ req'[r].status = "ok"))
               => IsAdmin(auth'[r].userId)
            /\ (AnsweredInStep(r) /\ req'[r].status # "unauthenticated"
                /\ ~IsAdmin(auth'[r].userId))
               => (req'[r].status = "forbidden" /\ events' = events)]_vars

\* C15: once createEvent has succeeded, getEvent of the new id returns an
\* Event whose totalTickets is the supplied capacity (100 only when the
\* capacity was omitted), whose availableTickets equals its totalTickets, and
\* whose description, category and status are the supplied values or the
\* defaults '', 'General' and 'active'.  (No request of SpecAdmin updates or
\* deletes the new event.)
C15_CreateThenGet ==
    \A r \in Reqs :
       (req[r].op = "create" /\ Answered(r) /\ req[r].status = "ok")
       => LET got == getEvent(req[r].id)
              body == req[r].body
          IN /\ got.status = "ok"
             /\ got.event.totalTickets =
                   (IF req[r].capacityGiven THEN req[r].capacity ELSE 100)
             /\ got.event.availableTickets = got.event.totalTickets
             /\ got.event.description = body.description
             /\ got.event.type = (IF body.category # "" THEN body.category ELSE "General")
             /\ "status" \in DOMAIN got.event
             /\ got.event.status = (IF body.status # "" THEN body.status ELSE "active")

\* C16: when the admin check has passed and the body of createEvent lacks
\* title, date, location or price, the request is answered with a validation
\* error, no Event record is stored and the set of Events is unchanged; such a
\* request never reaches the write of an Event.
C16_CreateValidated ==
    [][\A r \in Reqs :
         LET body == req'[r].body
             missing == body.title = "" \/ body.date = "" \/ body.location = ""
                        \/ ~body.priceGiven
         IN (/\ req'[r] # req[r]
             /\ req'[r].op = "create"
             /\ missing
             /\ IsAdmin(auth'[r].userId)
             /\ req'[r].pc # "requireAdmin")
            => /\ req'[r].pc = "done"
               /\ req'[r].status = "validation"
               /\ events' = events
               /\ DOMAIN events' = DOMAIN events]_vars

\* C16 witness: an administrator's createEvent without a price was answered
\* with the validation error, another with every required field stored an
\* Event.
C16_Witness ==
    \E r, s \in Reqs :
       /\ req[r].op = "create" /\ Answered(r) /\ req[r].status = "validation"
       /\ ~req[r].body.priceGiven /\ req[r].body.title # ""
       /\ IsAdmin(auth[r].userId)
       /\ req[s].op = "create" /\ Answered(s) /\ req[s].status = "ok"
       /\ req[s].id \in DOMAIN events

(***************************************************************************)
(* The requests that carry a token, with the clock running.                *)
(***************************************************************************)
\* The tokens sign-in has handed out so far.
IssuedTokens ==
    {req[s].token : s \in {x \in Reqs : req[x].op = "signin" /\ req[x].status = "ok"}}

\* Tokens a client can make up: text that is not base64, the empty token,
\* and payloads of its own (no exp, exp null, no userId, exp long past).
ForgedPayloads ==
    {Payload(testUserId, "undefined", 0), Payload(testUserId, "null", 0),
     Payload("", "number", (MaxDays + 1) * TokenLifetime),
     Payload(testUserId, "number", 0)}
ForgedTokens == {NotBase64, NoToken} \cup {btoa(JSONstringify(p)) : p \in ForgedPayloads}

\* Headers: none, a token under another scheme, a token as bearer.
\* MockServer's methods are handed the token, so only the last kind.
AuthHeaders ==
    {Header(TRUE, "Bearer ", t) : t \in IssuedTokens \cup ForgedTokens}
    \cup (IF variant = "mock" THEN {}
          ELSE {NoHeader} \cup {Header(TRUE, "Basic ", t) : t \in IssuedTokens})

NextAuth ==
    \/ Tick
    \/ \E r \in Reqs :
          \/ (KvSigninSubmit(r, "admin@example.com", "admin123") /\ UNCHANGED <<now, auth, client>>)
          \/ (KvSigninGetEmail(r) /\ UNCHANGED <<now, auth, client>>)
          \/ (KvSigninGetUser(r) /\ UNCHANGED <<now, auth, client>>)
          \/ (SigninSubmit(r, "admin@example.com", "admin123") /\ UNCHANGED <<now, auth, client>>)
          \/ (SigninCompare(r) /\ UNCHANGED <<now, auth, client>>)
          \/ \E h \in AuthHeaders, op \in {"book", "bookings"} :
                AuthBooking(r, h, op, createdEventId, 1, 0)
          \/ (KvBookGetEvent(r) /\ UNCHANGED <<now, auth, client>>)
          \/ (KvBookSetBooking(r) /\ UNCHANGED <<now, auth, client>>)
          \/ (KvBookSetUserBooking(r) /\ UNCHANGED <<now, auth, client>>)
          \/ (KvBookSetEvent(r) /\ UNCHANGED <<now, auth, client>>)
          \/ \E h \in AuthHeaders : AuthListBookings(r, h)
          \/ KvListAnswer(r)
          \/ \E h \in AuthHeaders, op \in {"profileGet", "profilePut"} :
                KvProfileSubmit(r, h, op, "Renamed")
          \/ KvProfileGetUser(r)
          \/ KvProfileSetUser(r)
          \/ \E h \in AuthHeaders :
                \/ KvAdminSubmit(r, h, "stats", "", FALSE, 0, NoBody)
                \/ MemAdmin(r, h, "stats", "", FALSE, 0, NoBody)
                \/ MockAdmin(r, h, "stats", FALSE, 0, NoBody)
          \/ KvRequireAdmin(r)
          \/ KvAdminRead(r)

SpecAuth == InitIdentity /\ [][NextAuth]_vars

(***************************************************************************)
(* Claims about tokens and authentication, checked under SpecAuth.         *)
(***************************************************************************)
\* C11: a token that sign-in issued for a user, presented as bearer token, is
\* accepted with that user's id whenever the check runs strictly before the
\* token's expiry (its issue time + 24 h), and is refused whenever the check
\* runs at the expiry or later.
C11_TokenAcceptedUntilExpiry ==
    \A r, s \in Reqs :
       (/\ req[s].op = "signin" /\ Answered(s) /\ req[s].status = "ok"
        /\ auth[r].at > 0
        /\ auth[r].header = Header(TRUE, "Bearer ", req[s].token))
       => LET expiry == req[s].token.text.value.exp
          IN /\ auth[r].at < expiry => auth[r].userId = req[s].id
             /\ auth[r].at >= expiry
                => /\ auth[r].userId = ""
                   /\ Answered(r) => req[r].status = "unauthenticated"

\* C12: the check yields a subject only for a token that decodes and parses
\* to a payload with a non-empty userId, the subject being that userId, and
\* with an expiry field that is a time later than the instant of the check; a
\* payload without expiry field yields none.
C12_OnlyWellFormedUnexpired ==
    \A r \in Reqs :
       auth[r].userId # ""
       => LET token == auth[r].header.token
              decoded == token.text.value
          IN /\ token.base64
             /\ token.text.parses
             /\ decoded.userId # ""
             /\ decoded.userId = auth[r].userId
             /\ decoded.expKind = "number"
             /\ decoded.exp > auth[r].at

\* A header that must be refused: missing, not a bearer header, or with a
\* token that is malformed or whose expiry is not later than the instant.
MustBeRefused(header, time) ==
    \/ ~header.present
    \/ header.scheme # "Bearer "
    \/ ~header.token.base64
    \/ ~header.token.text.parses
    \/ header.token.text.value.userId = ""
    \/ header.token.text.value.expKind # "number"
    \/ header.token.text.value.exp <= time

\* C13: a request to a route that requires authentication, whose header is
\* missing, is not a bearer header, or carries an invalid or expired token, is
\* answered Unauthenticated in the step of the check: the handler does not
\* start and no stored record changes.
C13_UnauthenticatedRefused ==
    [][\A r \in Reqs :
         (/\ req[r].pc = "idle"
          /\ req'[r].pc # "idle"
          /\ auth'[r] # auth[r]
          /\ MustBeRefused(auth'[r].header, auth'[r].at))
         => /\ req'[r].pc = "done"
            /\ req'[r].status = "unauthenticated"
            /\ store' = store]_vars

(***************************************************************************)
(* Re-initialisation.                                                      *)
(***************************************************************************)
\* The ids of sampleEvents in the order of the array.
sampleEventIds == <<"1", "2", "3", "4", "5">>

\* kv: initializeData() runs again (the function restarts):
\* kv.getByPrefix('user_email:') issued.
KvInitializeSubmit(r) ==
    /\ variant = "kv"
    /\ Free(r)
    /\ req' = [req EXCEPT ![r] = [IdleReq EXCEPT !.op = "initialize", !.pc = "initUsers"]]
    /\ UNCHANGED <<variant, store, nextId, now, auth, client>>

\* existingUsers.length === 0 is false: no operation removes an entry of the
\* email index, which holds the two seeded accounts from the start.
\* kv.getByPrefix('event:') issued.
KvInitializeUsers(r) ==
    /\ req[r].pc = "initUsers"
    /\ DOMAIN userEmails # {}
    /\ req' = [req EXCEPT ![r].pc = "initEvents"]
    /\ UNCHANGED <<variant, store, nextId, now, auth, client>>

\* if (existingEvents.length === 0): the loop over sampleEvents starts.
KvInitializeEvents(r) ==
    /\ req[r].pc = "initEvents"
    /\ req' = [req EXCEPT ![r] =
                 IF DOMAIN events = {} THEN [@ EXCEPT !.pc = "seedEvents", !.seen = 0]
                 ELSE Respond(@, "ok")]
    /\ UNCHANGED <<variant, store, nextId, now, auth, client>>

\* await kv.set(`event:${event.id}`, event) for the next sample event.
KvInitializeSeed(r) ==
    /\ req[r].pc = "seedEvents"
    /\ LET id == sampleEventIds[req[r].seen + 1]
       IN events' = (id :> sampleEvents("kv")[id]) @@ events
    /\ req' = [req EXCEPT ![r] =
                 IF req[r].seen + 1 = Len(sampleEventIds) THEN Respond(@, "ok")
                 ELSE [@ EXCEPT !.seen = req[r].seen + 1]]
    /\ UNCHANGED <<variant, users, userEmails, bookings, userBookings, initialized,
                   nextId, now, auth, client>>

\* mock: a run of initialize() that passed `if (this.initialized) return`
\* before the flag was set resumes after its first await: the test account is
\* set again; the second hashPassword is awaited.
MockInitializeTestUser(r) ==
    /\ variant = "mock"
    /\ req[r].pc = "initRun"
    /\ users' = (testUserId :> testUser) @@ users
    /\ userEmails' = ("test@example.com" :> testUserId) @@ userEmails
    /\ req' = [req EXCEPT ![r].pc = "initAdmin"]
    /\ UNCHANGED <<variant, events, bookings, userBookings, initialized, nextId,
                   now, auth, client>>

\* The run resumes after its second await: the admin account and the sample
\* events are set again, then the flag.
MockInitializeFinish(r) ==
    /\ variant = "mock"
    /\ req[r].pc = "initAdmin"
    /\ users' = (adminUserId :> adminUser) @@ users
    /\ userEmails' = ("admin@example.com" :> adminUserId) @@ userEmails
    /\ events' = sampleEvents("mock") @@ events
    /\ initialized' = TRUE
    /\ req' = [req EXCEPT ![r] = Respond(@, "ok")]
    /\ UNCHANGED <<variant, bookings, userBookings, nextId, now, auth, client>>

(***************************************************************************)
(* The ledger of bookings with every operation that runs beside it.        *)
(***************************************************************************)
UserHeader == Header(TRUE, "Bearer ", generateToken(testUserId))

NextLedger ==
    \E r \in Reqs :
       \/ /\ \/ \E op \in {"book", "bookings"}, q \in 1..MaxCap :
                   KvBookSubmit(r, op, testUserId, createdEventId, q, 0)
             \/ KvBookGetEvent(r)
             \/ KvBookSetBooking(r)
             \/ KvBookSetUserBooking(r)
             \/ KvBookSetEvent(r)
             \/ \E q \in 1..MaxCap : MemCreateBooking(r, testUserId, createdEventId, q, 0)
             \/ \E q \in 1..MaxCap : MockCreateBooking(r, testUserId, createdEventId, q, 0)
             \/ KvUpdateSubmit(r, createdEventId, TRUE, MaxCap)
             \/ KvUpdateGetEvent(r)
             \/ KvUpdateSetEvent(r)
             \/ KvDeleteSubmit(r, createdEventId)
             \/ KvDeleteGetEvent(r)
             \/ KvDeleteGetBookings(r)
             \/ KvDeleteDelEvent(r)
          /\ UNCHANGED <<now, auth, client>>
       \/ KvProfileSubmit(r, UserHeader, "profilePut", "Renamed")
       \/ KvProfileGetUser(r)
       \/ KvProfileSetUser(r)
       \/ KvInitializeSubmit(r)
       \/ KvInitializeUsers(r)
       \/ KvInitializeEvents(r)
       \/ KvInitializeSeed(r)
       \/ MockInitializeTestUser(r)
       \/ MockInitializeFinish(r)

\* The store as the ledger's requests find it.  kv: the administrator has
\* deleted the five sample events and created one.  mock: a second run of
\* initialize(), started before the first had set the flag, may still be in
\* flight (it takes the first request slot).
InitLedger ==
    /\ variant \in Variants
    /\ \E c \in 1..MaxCap :
          events = IF variant = "kv" THEN (createdEventId :> createdEvent(c))
                   ELSE (createdEventId :> createdEvent(c)) @@ sampleEvents(variant)
    /\ users = (testUserId :> testUser) @@ (adminUserId :> adminUser)
    /\ userEmails = ("test@example.com" :> testUserId)
                    @@ ("admin@example.com" :> adminUserId)
    /\ bookings = <<>>
    /\ userBookings = {}
    /\ initialized = TRUE
    /\ nextId = 1
    /\ \E straggler \in BOOLEAN :
          /\ straggler => variant = "mock"
          /\ req = [r \in Reqs |->
                      IF straggler /\ r = 1
                      THEN [IdleReq EXCEPT !.op = "initialize", !.pc = "initRun"]
                      ELSE IdleReq]
    /\ now = 1
    /\ auth = [r \in Reqs |-> NoAuth]
    /\ cartItems = <<>>
    /\ checkout = NoCheckout

SpecLedger == InitLedger /\ [][NextLedger]_vars

(***************************************************************************)
(* Claims about the ledger, checked under SpecLedger.                      *)
(***************************************************************************)
\* C17: no step modifies or deletes a Booking record that is stored; a step
\* that changes the bookings adds exactly one record, under an id that was not
\* in use, with status 'Confirmed', for the booking request that takes the
\* step; and a booking request answered with success has its record stored.
C17_BookingsWrittenOnce ==
    [][/\ \A b \in DOMAIN bookings :
             b \in DOMAIN bookings' /\ bookings'[b] = bookings[b]
       /\ bookings' # bookings
          => \E r \in Reqs :
                /\ IsBooking(req'[r])
                /\ req'[r] # req[r]
                /\ req'[r].id \notin DOMAIN bookings
                /\ DOMAIN bookings' = DOMAIN bookings \cup {req'[r].id}
                /\ bookings'[req'[r].id].status = "Confirmed"
                /\ bookings'[req'[r].id].userId = req'[r].userId
                /\ bookings'[req'[r].id].quantity = req'[r].quantity
       /\ \A r \in Reqs :
             (AnsweredInStep(r) /\ IsBooking(req'[r]) /\ req'[r].status = "ok")
             => /\ req'[r].id \in DOMAIN bookings'
                /\ \A s \in Reqs \ {r} : req'[s].id # req'[r].id]_vars

\* C17 witness: two bookings succeeded under different ids; or one succeeded
\* and a later update, delete, profile update or re-initialisation was
\* answered while its record stayed stored.
C17_Witness ==
    \E r, s \in Reqs :
       /\ r # s
       /\ IsBooking(req[r]) /\ Answered(r) /\ req[r].status = "ok"
       /\ req[r].id \in DOMAIN bookings
       /\ Answered(s)
       /\ \/ IsBooking(req[s]) /\ req[s].status = "ok" /\ req[s].id \in DOMAIN bookings
          \/ req[s].op \in {"update", "delete", "profilePut", "initialize"}

(***************************************************************************)
(* Store failures during a booking (kv).                                   *)
(***************************************************************************)
\* The store call a booking handler is waiting on throws: the inner catch
\* (POST /events/:id/book, around the three writes) or the handler's outer
\* catch answers 500.  What earlier calls wrote stays written.
KvBookStoreFails(r) ==
    /\ req[r].pc \in {"getEvent", "setBooking", "setUserBooking", "setEvent"}
    /\ IsBooking(req[r])
    /\ req' = [req EXCEPT ![r] = Respond(@, "storeFailed")]
    /\ UNCHANGED <<variant, store, nextId, now, auth, client>>

NextFailure ==
    \E r \in Reqs :
       \/ /\ \/ \E op \in {"book", "bookings"}, e \in BookEventIds, q \in 1..MaxCap :
                   KvBookSubmit(r, op, testUserId, e, q, 0)
             \/ KvBookGetEvent(r)
             \/ KvBookSetBooking(r)
             \/ KvBookSetUserBooking(r)
             \/ KvBookSetEvent(r)
          /\ UNCHANGED <<now, auth, client>>
       \/ KvBookStoreFails(r)

InitFailure == Init /\ variant = "kv"

SpecFailure == InitFailure /\ [][NextFailure]_vars

\* C18: a booking request in which a store call failed is never answered with
\* success, and a booking request answered with a failure has left nothing in
\* the store: no Booking record and no user index entry of its own (its
\* availability decrement, the last write, cannot have happened).
C18_NoPartialBooking ==
    \A r \in Reqs :
       (Answered(r) /\ IsBooking(req[r]))
       => /\ req[r].status = "ok"
             => /\ req[r].id \in DOMAIN bookings
                /\ <<req[r].userId, req[r].id>> \in userBookings
          /\ req[r].status # "ok"
             => /\ req[r].id \notin DOMAIN bookings
                /\ <<req[r].userId, req[r].id>> \notin userBookings

(***************************************************************************)
(* Prices: the booking requests with a caller-supplied totalAmount.        *)
(***************************************************************************)
\* totalAmount: absent (0), a positive amount, a negative amount.
TotalAmounts == {0, 700, -500}

NextPricing ==
    /\ \E r \in Reqs :
          \/ \E op \in {"book", "bookings"}, q \in 1..MaxCap, a \in TotalAmounts :
                KvBookSubmit(r, op, testUserId, createdEventId, q, a)
          \/ KvBookGetEvent(r)
          \/ KvBookSetBooking(r)
          \/ KvBookSetUserBooking(r)
          \/ KvBookSetEvent(r)
          \/ \E q \in 1..MaxCap, a \in TotalAmounts :
                MemCreateBooking(r, testUserId, createdEventId, q, a)
          \/ \E q \in 1..MaxCap, a \in TotalAmounts :
                MockCreateBooking(r, testUserId, createdEventId, q, a)
    /\ UNCHANGED <<now, auth, client>>

SpecPricing == Init /\ [][NextPricing]_vars

\* C19: in a booking, the Event with the decremented availability is
\* persisted before the Booking record, and the Booking record before the
\* user index entry: while no other request has started, a stored Booking of
\* the request means the Event already holds the availability the request
\* read less its quantity, and a stored index entry means a stored Booking.
C19_EventThenBookingThenIndex ==
    \A r \in Reqs :
       (IsBooking(req[r]) /\ \A s \in Reqs \ {r} : req[s].pc = "idle")
       => /\ req[r].id \in DOMAIN bookings
             => /\ req[r].eventId \in DOMAIN events
                /\ events[req[r].eventId].availableTickets =
                      req[r].event.availableTickets - req[r].quantity
          /\ <<req[r].userId, req[r].id>> \in userBookings
             => req[r].id \in DOMAIN bookings

\* C20: the totalPrice of a stored Booking is the request's totalAmount when
\* that is a positive amount, and the price of the Event the request read times
\* the quantity otherwise, for both booking endpoints of the kv server, the
\* in-memory server and MockServer.
C20_TotalPrice ==
    \A r \in Reqs :
       (IsBooking(req[r]) /\ req[r].id \in DOMAIN bookings)
       => bookings[req[r].id].totalPrice =
             (IF req[r].totalAmount > 0 THEN req[r].totalAmount
              ELSE req[r].event.price * req[r].quantity)

(***************************************************************************)
(* The listing of a user's bookings.                                       *)
(***************************************************************************)
\* One element of the answer of GET /user/bookings: the booking with its
\* event field, which is null when the booking's event is not in the store.
ListedBooking(id) ==
    [id |-> id,
     event |-> IF bookings[id].eventId \in DOMAIN events THEN "event" ELSE "null"]

\* mutant of getUserBookings: the filter is left out.
getUserBookingsUnfiltered(userId) == {ListedBooking(b) : b \in DOMAIN bookings}

\* mem, mock: bookings.values().filter(userId === payload.userId).map(...)
getUserBookings(userId) == {ListedBooking(b) : b \in OwnBookings(userId)}

\* GET /user/bookings behind the check.  mem, mock: filter and map run
\* without an await.  kv: kv.getByPrefix of the user's index issued.
ListBookings(r, header) ==
    /\ Free(r)
    /\ variant = "mock" => initialized
    /\ Checked(r, header)
    /\ IF Subject(header) = ""
       THEN Unauthenticated(r, "listBookings")
       ELSE /\ LET rec == [IdleReq EXCEPT !.op = "listBookings",
                                          !.userId = Subject(header)]
               IN req' = [req EXCEPT ![r] =
                            IF variant = "kv" THEN [rec EXCEPT !.pc = "listScan"]
                            ELSE Respond([rec EXCEPT
                                            !.scanned = OwnBookings(rec.userId),
                                            !.listed = getUserBookings(rec.userId)],
                                         "ok")]
            /\ UNCHANGED <<variant, store, nextId>>
    /\ UNCHANGED <<now, client>>

\* kv.getByPrefix(`user_booking:${userId}:`) returns the indexed booking ids.
KvListScan(r) ==
    /\ req[r].pc = "listScan"
    /\ LET ids == {p[2] : p \in {q \in userBookings : q[1] = req[r].userId}}
       IN req' = [req EXCEPT ![r] =
                    IF ids = {} THEN Respond(@, "ok")
                    ELSE [@ EXCEPT !.pc = "listBooking", !.scanned = ids,
                                   !.pending = ids]]
    /\ UNCHANGED <<variant, store, nextId, now, auth, client>>

\* The loop's kv.get(`booking:${bookingId}`) returns for the next id; an id
\* without a Booking record is skipped.
KvListGetBooking(r) ==
    /\ req[r].pc = "listBooking"
    /\ \E b \in req[r].pending :
          LET rest == req[r].pending \ {b}
          IN req' = [req EXCEPT ![r] =
                       IF b \in DOMAIN bookings
                       THEN [@ EXCEPT !.pc = "listEvent", !.id = b, !.pending = rest]
                       ELSE IF rest = {} THEN Respond([@ EXCEPT !.pending = rest], "ok")
                       ELSE [@ EXCEPT !.pending = rest]]
    /\ UNCHANGED <<variant, store, nextId, now, auth, client>>

\* The loop's kv.get(`event:${booking.eventId}`) returns and the booking is
\* pushed; after the last id the list is answered.
KvListGetEvent(r) ==
    /\ req[r].pc = "listEvent"
    /\ LET listed == req[r].listed \cup {ListedBooking(req[r].id)}
       IN req' = [req EXCEPT ![r] =
                    IF req[r].pending = {} THEN Respond([@ EXCEPT !.listed = listed], "ok")
                    ELSE [@ EXCEPT !.pc = "listBooking", !.listed = listed]]
    /\ UNCHANGED <<variant, store, nextId, now, auth, client>>

\* The headers of the listing and booking requests: the seeded user's token,
\* the seeded administrator's, and no header.
ListHeaders == {UserHeader, AdminHeader, NoHeader}

NextListing ==
    \E r \in Reqs :
       \/ \E h \in ListHeaders, q \in 1..MaxCap :
             AuthBooking(r, h, "bookings", createdEventId, q, 0)
       \/ /\ \/ KvBookGetEvent(r)
             \/ KvBookSetBooking(r)
             \/ KvBookSetUserBooking(r)
             \/ KvBookSetEvent(r)
          /\ UNCHANGED <<now, auth, client>>
       \/ \E h \in ListHeaders : ListBookings(r, h)
       \/ KvListScan(r)
       \/ KvListGetBooking(r)
       \/ KvListGetEvent(r)

\* The store as the listing finds it: the administrator has booked one
\* ticket of the created event; on the kv server the seeded user may hold a
\* booking of an event that DELETE /admin/events/:id removed after the
\* booking handler had read it.
adminBookingId == "uuid-01"
orphanBookingId == "uuid-02"
deletedEventId == "deleted-event"
InitListing ==
    /\ variant \in Variants
    /\ \E c \in 1..MaxCap, n \in 0..1 :
          /\ n = 1 => variant = "kv"
          /\ events = (createdEventId :> DecrementedEvent(createdEvent(c), 1))
                      @@ sampleEvents(variant)
          /\ bookings =
                (adminBookingId :>
                    Booking(adminBookingId, adminUserId, createdEventId, 1,
                            TotalPrice("book", createdEvent(c), 1, 0)))
                @@ (IF n = 0 THEN <<>>
                    ELSE (orphanBookingId :>
                            Booking(orphanBookingId, testUserId, deletedEventId, 1, 100)))
          /\ userBookings =
                IF variant # "kv" THEN {}
                ELSE {<<adminUserId, adminBookingId>>}
                     \cup (IF n = 0 THEN {} ELSE {<<testUserId, orphanBookingId>>})
    /\ users = (testUserId :> testUser) @@ (adminUserId :> adminUser)
    /\ userEmails = ("test@example.com" :> testUserId)
                    @@ ("admin@example.com" :> adminUserId)
    /\ initialized = TRUE
    /\ nextId = 1
    /\ req = [r \in Reqs |-> IdleReq]
    /\ now = 1
    /\ auth = [r \in Reqs |-> NoAuth]
    /\ cartItems = <<>>
    /\ checkout = NoCheckout

SpecListing == InitListing /\ [][NextListing]_vars

\* The listing request r is answered with a list in this step.
ListAnsweredInStep(r) ==
    /\ req[r].pc # "done"
    /\ req'[r].pc = "done"
    /\ req'[r].op = "listBookings"
    /\ req'[r].status = "ok"

\* The listing request r collects the ids of the subject's bookings in this
\* step (the filter of mem and mock, the index scan of kv).
ListScannedInStep(r) ==
    /\ req[r].pc \in {"idle", "listScan"}
    /\ req'[r].pc \notin {"idle", "listScan"}
    /\ req'[r].op = "listBookings"
    /\ req'[r].status # "unauthenticated"

\* C21: listUserBookings(subject) lists exactly the subject's bookings: every
\* booking the subject had made successfully when the bookings were collected
\* is listed, every listed booking is owned by the subject and listed once,
\* and a listed booking whose event is not in the store carries a null event.
C21_ListsOwnBookings ==
    [][\A r \in Reqs :
          /\ ListScannedInStep(r)
             => \A s \in Succeeded :
                   (IsBooking(req[s]) /\ req[s].userId = req'[r].userId)
                   => req[s].id \in req'[r].scanned
          /\ ListAnsweredInStep(r)
             => /\ {e.id : e \in req'[r].listed} = req'[r].scanned
                /\ \A e \in req'[r].listed :
                      /\ e.id \in DOMAIN bookings
                      /\ bookings[e.id].userId = req'[r].userId
                /\ Cardinality(req'[r].listed) = Cardinality(req'[r].scanned)
          /\ \A e \in req'[r].listed \ req[r].listed :
                e.event = "null" <=> bookings[e.id].eventId \notin DOMAIN events
      ]_vars

\* C21 witness: the seeded user booked, another user holds a booking, and the
\* user's list was answered with the new booking and with the booking of the
\* deleted event, its event null.
C21_Witness ==
    \E r, s \in Reqs :
       /\ Answered(r) /\ req[r].op = "listBookings" /\ req[r].status = "ok"
       /\ s \in Succeeded /\ IsBooking(req[s]) /\ req[s].userId = req[r].userId
       /\ [id |-> req[s].id, event |-> "event"] \in req[r].listed
       /\ [id |-> orphanBookingId, event |-> "null"] \in req[r].listed
       /\ \E b \in DOMAIN bookings : bookings[b].userId # req[r].userId

(***************************************************************************)
(* The frame of an event update.                                           *)
(***************************************************************************)
\* PUT /admin/events/:id with a body of several fields: body parsed, kv.get
\* of the event issued.
KvUpdateSubmitPatch(r, eventId, patch, capacityGiven, capacity) ==
    /\ variant = "kv"
    /\ Free(r)
    /\ req' = [req EXCEPT ![r] =
                 [IdleReq EXCEPT !.op = "update", !.pc = "getEvent",
                                 !.userId = adminUserId, !.eventId = eventId,
                                 !.patch = patch,
                                 !.capacityGiven = capacityGiven,
                                 !.capacity = IF capacityGiven THEN capacity ELSE 0]]
    /\ UNCHANGED <<variant, store, nextId>>

\* The bodies of the updates: empty, one field each, an empty description,
\* a price of 0, all fields.
Patches ==
    {NoPatch,
     [NoPatch EXCEPT !.descriptionGiven = TRUE, !.description = "Moved"],
     [NoPatch EXCEPT !.descriptionGiven = TRUE],
     [NoPatch EXCEPT !.category = "Music"],
     [NoPatch EXCEPT !.priceGiven = TRUE, !.price = 0],
     [NoPatch EXCEPT !.status = "cancelled"],
     Patch(TRUE, "Moved", "Music", TRUE, 500, "cancelled")}
\* The update requests: each body on the created event, a capacity alone,
\* an empty body and a status on a seeded event (which has no status), and
\* an id that is not in the store.
UpdateInputs ==
    {<<createdEventId, p, FALSE, 0>> : p \in Patches}
    \cup {<<createdEventId, NoPatch, TRUE, MaxCap + 1>>,
          <<"3", NoPatch, FALSE, 0>>,
          <<"3", [NoPatch EXCEPT !.status = "cancelled"], FALSE, 0>>,
          <<"no-such-event", NoPatch, TRUE, MaxCap + 1>>}

NextUpdate ==
    /\ \E r \in Reqs :
          \/ KvBookSubmit(r, "book", testUserId, createdEventId, 1, 0)
          \/ KvBookGetEvent(r)
          \/ KvBookSetBooking(r)
          \/ KvBookSetUserBooking(r)
          \/ KvBookSetEvent(r)
          \/ \E u \in UpdateInputs :
                KvUpdateSubmitPatch(r, u[1], u[2], u[3], u[4])
          \/ KvUpdateGetEvent(r)
          \/ KvUpdateSetEvent(r)
    /\ UNCHANGED <<now, auth, client>>

\* The kv store as the updates find it: seeded, with an event an
\* administrator created through POST /admin/events.
InitUpdate ==
    /\ variant = "kv"
    /\ \E c \in 1..MaxCap :
          events = (createdEventId :> NewEvent("kv", FullBody, TRUE, c))
                   @@ sampleEvents("kv")
    /\ users = (testUserId :> testUser) @@ (adminUserId :> adminUser)
    /\ userEmails = ("test@example.com" :> testUserId)
                    @@ ("admin@example.com" :> adminUserId)
    /\ bookings = <<>>
    /\ userBookings = {}
    /\ initialized = TRUE
    /\ nextId = 1
    /\ req = [r \in Reqs |-> IdleReq]
    /\ now = 1
    /\ auth = [r \in Reqs |-> NoAuth]
    /\ cartItems = <<>>
    /\ checkout = NoCheckout

SpecUpdate == InitUpdate /\ [][NextUpdate]_vars

\* The fields of the stored Event that the body of update request rec names.
PresentFields(rec) ==
    (IF rec.capacityGiven THEN {"totalTickets", "availableTickets"} ELSE {})
    \cup (IF rec.patch.descriptionGiven THEN {"description"} ELSE {})
    \cup (IF rec.patch.category # "" THEN {"type"} ELSE {})
    \cup (IF rec.patch.priceGiven THEN {"price"} ELSE {})
    \cup (IF rec.patch.status # "" THEN {"status"} ELSE {})

ProfileHeaders ==
    {Header(TRUE, "Bearer ", generateToken(u)) : u \in {testUserId, randomUUID(1)}}

NextAccounts ==
    \E r \in Reqs :
       \/ /\ \/ \E e \in {"new@example.com", "user@gmail.com"} :
                   KvSignupSubmit(r, e, "secret1")
             \/ KvSignupGetEmail(r)
             \/ KvSignupSetUser(r)
             \/ KvSignupSetEmail(r)
             \/ \E e \in {"new@example.com", "user@gmail.com"} :
                   SignupSubmit(r, e, "secret1")
             \/ SignupStore(r)
             \/ KvSigninSubmit(r, "test@example.com", "password123")
             \/ KvSigninGetEmail(r)
             \/ KvSigninGetUser(r)
             \/ SigninSubmit(r, "test@example.com", "password123")
             \/ SigninCompare(r)
             \/ SocialSignin(r, "google")
             \/ KvBookSubmit(r, "book", testUserId, createdEventId, 1, 0)
             \/ KvBookGetEvent(r)
             \/ KvBookSetBooking(r)
             \/ KvBookSetUserBooking(r)
             \/ KvBookSetEvent(r)
             \/ MemCreateBooking(r, testUserId, createdEventId, 1, 0)
             \/ MockCreateBooking(r, testUserId, createdEventId, 1, 0)
          /\ UNCHANGED <<now, auth, client>>
       \/ \E h \in ProfileHeaders : KvProfileSubmit(r, h, "profilePut", "Renamed")
       \/ KvProfileGetUser(r)
       \/ KvProfileSetUser(r)
       \/ KvAdminSubmit(r, AdminHeader, "create", "", TRUE, MaxCap, FullBody)
       \/ MemAdmin(r, AdminHeader, "create", "", TRUE, MaxCap, FullBody)
       \/ MockAdmin(r, AdminHeader, "create", TRUE, MaxCap, FullBody)
       \/ KvRequireAdmin(r)
       \/ KvCreateSetEvent(r)
       \/ KvInitializeSubmit(r)
       \/ KvInitializeUsers(r)
       \/ KvInitializeEvents(r)
       \/ MockInitializeTestUser(r)
       \/ MockInitializeFinish(r)

\* The store of the ledger, with one capacity of the created event: the
\* account requests do not depend on it.
InitAccounts == InitLedger /\ events[createdEventId].totalTickets = 1

SpecAccounts == InitAccounts /\ [][NextAccounts]_vars

\* The step in which profile update r stores the User record of u.
ProfileWriteStep(r, u) ==
    /\ req[r].op = "profilePut"
    /\ req[r].pc = "setProfile"
    /\ req'[r].pc = "done"
    /\ req[r].userId = u

MemHealth(r) ==
    /\ variant = "mem"
    /\ Free(r)
    /\ initialized
    /\ req' = [req EXCEPT ![r] = Respond([IdleReq EXCEPT !.op = "health"], "ok")]
    /\ UNCHANGED <<variant, store, nextId, now, auth, client>>

SeededEventIds == {createdEventId, "3"}

NextSeeding ==
    \E r \in Reqs :
       \/ /\ \/ \E e \in SeededEventIds, q \in 1..MaxCap :
                   MemCreateBooking(r, testUserId, e, q, 0)
             \/ \E e \in SeededEventIds, q \in 1..MaxCap :
                   MockCreateBooking(r, testUserId, e, q, 0)
             \/ SignupSubmit(r, "new@example.com", "secret1")
             \/ SignupStore(r)
             \/ SocialSignin(r, "google")
          /\ UNCHANGED <<now, auth, client>>
       \/ MemHealth(r)
       \/ MockInitializeTestUser(r)
       \/ MockInitializeFinish(r)

\* The in-memory server and MockServer, seeded; on MockServer a second run of
\* initialize(), started by a call made while the constructor's run was
\* awaiting hashPassword, may still be in flight.
InitSeeding == InitLedger /\ variant # "kv"

SpecSeeding == InitSeeding /\ [][NextSeeding]_vars

\* C24: once an operation has been answered from the seeded data, no step of
\* an initialize run changes the Events, the Users or the email index.
C24_SeedsOnce ==
    [][\A r \in Reqs :
         (/\ req[r].op = "initialize"
          /\ req'[r] # req[r]
          /\ \E s \in Reqs : Answered(s) /\ req[s].op # "initialize")
         => /\ events' = events
            /\ users' = users
            /\ userEmails' = userEmails]_vars

(***************************************************************************)
(* The number sold against the bookings.                                   *)
(***************************************************************************)
NextInventory ==
    /\ \E r \in Reqs :
          \/ \E op \in {"book", "bookings"}, q \in 1..MaxCap :
                KvBookSubmit(r, op, testUserId, createdEventId, q, 0)
          \/ KvBookGetEvent(r)
          \/ KvBookSetBooking(r)
          \/ KvBookSetUserBooking(r)
          \/ KvBookSetEvent(r)
          \/ \E q \in 1..MaxCap : MemCreateBooking(r, testUserId, createdEventId, q, 0)
          \/ \E q \in 1..MaxCap : MockCreateBooking(r, testUserId, createdEventId, q, 0)
          \/ \E g \in BOOLEAN : KvUpdateSubmit(r, createdEventId, g, MaxCap + 1)
          \/ KvUpdateGetEvent(r)
          \/ KvUpdateSetEvent(r)
    /\ UNCHANGED <<now, auth, client>>

SpecInventory == Init /\ [][NextInventory]_vars

\* The sum of the quantities of the bookings ids.
RECURSIVE SumQuantities(_)
SumQuantities(ids) ==
    IF ids = {} THEN 0
    ELSE LET b == CHOOSE x \in ids : TRUE
         IN bookings[b].quantity + SumQuantities(ids \ {b})

\* The number sold when the Event was seeded or created.
SoldAtStart(e) ==
    IF e = createdEventId THEN 0 ELSE Sold(sampleEvents(variant)[e])

\* No request is between two of its steps.
Quiescent == \A r \in Reqs : req[r].pc \in {"idle", "done"}

\* C25: whenever every request has been answered, each Event's number sold
\* (totalTickets - availableTickets) is the number sold when it was seeded or
\* created plus the sum of the quantities of the Bookings of that Event.
C25_SoldMatchesBookings ==
    Quiescent
    => \A e \in DOMAIN events :
          Sold(events[e]) = SoldAtStart(e) + SumQuantities(EventBookings(e))

(***************************************************************************)
(* Deleting an event while it is being booked.                             *)
(***************************************************************************)
NextRemoval ==
    /\ \E r \in Reqs :
          \/ \E op \in {"book", "bookings"}, q \in 1..MaxCap :
                KvBookSubmit(r, op, testUserId, createdEventId, q, 0)
          \/ KvBookGetEvent(r)
          \/ KvBookSetBooking(r)
          \/ KvBookSetUserBooking(r)
          \/ KvBookSetEvent(r)
          \/ \E e \in CatalogEventIds : KvDeleteSubmit(r, e)
          \/ KvDeleteGetEvent(r)
          \/ KvDeleteGetBookings(r)
          \/ KvDeleteDelEvent(r)
    /\ UNCHANGED <<now, auth, client>>

SpecRemoval == InitCatalog /\ [][NextRemoval]_vars

\* C26: on the kv server every stored Booking names an Event that is in the
\* store, and an Event whose deleteEvent was answered with success is not in
\* the store.
C26_NoOrphanNoReturn ==
    /\ \A b \in DOMAIN bookings : bookings[b].eventId \in DOMAIN events
    /\ \A r \in Reqs :
          (Answered(r) /\ req[r].op = "delete" /\ req[r].status = "ok")
          => req[r].eventId \notin DOMAIN events

(***************************************************************************)
(* The route order of the in-memory server, checked under SpecAdmin.       *)
(***************************************************************************)
\* The requests whose path contains /admin/.
AdminPathOps == AdminOps \cup {"postAdminBookings"}

\* C27: on the in-memory server a request whose path contains /admin/ is
\* answered with anything but the 401 and 403 refusals only after the token
\* check returned a subject that is a stored User with isAdmin true.
C27_AdminPathsChecked ==
    variant = "mem"
    => \A r \in Reqs :
          (/\ Answered(r)
           /\ req[r].op \in AdminPathOps
           /\ req[r].status \notin {"unauthenticated", "forbidden"})
          => IsAdmin(auth[r].userId)

(***************************************************************************)
(* The cart of the browser client (App.tsx, CartPage.tsx).                 *)
(***************************************************************************)
\* Largest quantity one cart item reaches.
MaxQuantity == 3

\* A CartItem, for the fields the cart functions and the checkout read.
CartItem(eventId, quantity, price) ==
    [eventId |-> eventId, quantity |-> quantity, price |-> price]

InCart(items, eventId) == \E i \in 1..Len(items) : items[i].eventId = eventId

\* Mutant of AddedItem: the item is always appended.
AddedItemAppended(prev, item) == Append(prev, item)

\* The updater of addToCart: prev.find(...) ? prev.map(...) : [...prev, item]
AddedItem(prev, item) ==
    IF InCart(prev, item.eventId)
    THEN [i \in 1..Len(prev) |->
            IF prev[i].eventId = item.eventId
            THEN [prev[i] EXCEPT !.quantity = prev[i].quantity + item.quantity]
            ELSE prev[i]]
    ELSE Append(prev, item)

\* prev.filter(item => item.eventId !== eventId)
WithoutEvent(prev, eventId) ==
    LET keep(item) == item.eventId # eventId
    IN SelectSeq(prev, keep)

\* The updater of updateQuantity.
WithQuantity(prev, eventId, quantity) ==
    IF quantity <= 0 THEN WithoutEvent(prev, eventId)
    ELSE [i \in 1..Len(prev) |->
            IF prev[i].eventId = eventId THEN [prev[i] EXCEPT !.quantity = quantity]
            ELSE prev[i]]

\* The quantity the cart holds of an event, 0 when it holds none.
QuantityInCart(items, eventId) ==
    IF InCart(items, eventId)
    THEN items[CHOOSE i \in 1..Len(items) : items[i].eventId = eventId].quantity
    ELSE 0

\* App.tsx addToCart, called by the event pages with the event's price and a
\* quantity of at least 1.
addToCart(item) ==
    /\ item.quantity >= 1
    /\ QuantityInCart(cartItems, item.eventId) + item.quantity <= MaxQuantity
    /\ cartItems' = AddedItem(cartItems, item)
    /\ UNCHANGED <<variant, store, nextId, req, now, auth, checkout>>

removeFromCart(eventId) ==
    /\ cartItems' = WithoutEvent(cartItems, eventId)
    /\ UNCHANGED <<variant, store, nextId, req, now, auth, checkout>>

updateQuantity(eventId, quantity) ==
    /\ cartItems' = WithQuantity(cartItems, eventId, quantity)
    /\ UNCHANGED <<variant, store, nextId, req, now, auth, checkout>>

clearCart ==
    /\ cartItems' = <<>>
    /\ UNCHANGED <<variant, store, nextId, req, now, auth, checkout>>

\* CartPage handleQuantityChange, called by the - and + buttons of an item.
handleQuantityChange(eventId, newQuantity) ==
    IF newQuantity < 1 THEN removeFromCart(eventId)
    ELSE updateQuantity(eventId, newQuantity)

\* The events the pages offer and the items they put in the cart.
CartEventIds == {createdEventId, "2", "3"}
CartInputs ==
    {CartItem(e, q, events[e].price) : e \in CartEventIds, q \in 1..(MaxQuantity - 1)}

NextCart ==
    \/ \E item \in CartInputs : addToCart(item)
    \/ \E e \in CartEventIds : removeFromCart(e)
    \/ \E e \in CartEventIds, q \in -1..MaxQuantity : updateQuantity(e, q)
    \/ \E i \in 1..Len(cartItems), d \in {-1, 1} :
          /\ cartItems[i].quantity + d <= MaxQuantity
          /\ handleQuantityChange(cartItems[i].eventId, cartItems[i].quantity + d)
    \/ clearCart

SpecCart == Init /\ [][NextCart]_vars

\* C29: the cart holds at most one item per eventId and every item has a
\* quantity of at least 1; addToCart of an item whose eventId is in the cart
\* leaves the number of items as it is and adds the item's quantity to the
\* one held, every other item kept; updateQuantity with a quantity of 0 or
\* less removes the item of that eventId and keeps the others.
C29_CartWellFormed ==
    /\ \A i, j \in 1..Len(cartItems) :
          cartItems[i].eventId = cartItems[j].eventId => i = j
    /\ \A i \in 1..Len(cartItems) : cartItems[i].quantity >= 1
    /\ \A item \in CartInputs :
          InCart(cartItems, item.eventId)
          => LET next == AddedItem(cartItems, item)
             IN /\ Len(next) = Len(cartItems)
                /\ \A i \in 1..Len(next) :
                      next[i] = IF cartItems[i].eventId = item.eventId
                                THEN [cartItems[i] EXCEPT
                                        !.quantity = cartItems[i].quantity + item.quantity]
                                ELSE cartItems[i]
    /\ \A e \in CartEventIds, q \in -1..0 :
          LET next == WithQuantity(cartItems, e, q)
          IN /\ ~InCart(next, e)
             /\ Len(next) = Len(cartItems) - (IF InCart(cartItems, e) THEN 1 ELSE 0)
             /\ \A i \in 1..Len(cartItems) :
                   cartItems[i].eventId # e => InCart(next, cartItems[i].eventId)

\* C29 witness: a cart of two items, the first at the quantity two addToCart
\* calls for its event add up to, the second lowered to 1.
C29_Witness ==
    /\ Len(cartItems) = 2
    /\ cartItems[1].eventId = createdEventId
    /\ cartItems[1].quantity = MaxQuantity
    /\ cartItems[2].eventId = "3"
    /\ cartItems[2].quantity = 1

(***************************************************************************)
(* Cart checkout (CartPage.tsx handleCheckout) against MockServer.         *)
(***************************************************************************)
\* Number of times the user presses the checkout button.
MaxCheckouts == 2

\* The createBooking call of item i has resolved with a booking.
Booked(i) == checkout.results[i] \notin {"", "failed"}

\* handleCheckout up to `await Promise.all(bookingPromises)`: the user is
\* signed in and the cart is not empty; cartItems.map has started one
\* apiClient.createBooking per item.
handleCheckout ==
    /\ variant = "mock"
    /\ initialized
    /\ checkout.pc # "booking"
    /\ checkout.runs < MaxCheckouts
    /\ Len(cartItems) > 0
    /\ checkout' = [pc |-> "booking", items |-> cartItems,
                    results |-> [i \in 1..Len(cartItems) |-> ""],
                    runs |-> checkout.runs + 1]
    /\ UNCHANGED <<variant, store, nextId, req, now, auth, cartItems>>

\* MockServer.createBooking(token, item.eventId, item.quantity,
\* item.price * item.quantity) runs for the next item: it throws, or it stores
\* the Booking and decrements the Event.
CheckoutCreateBooking ==
    /\ checkout.pc = "booking"
    /\ \E i \in 1..Len(checkout.items) :
          /\ checkout.results[i] = ""
          /\ \A j \in 1..(i - 1) : checkout.results[j] # ""
          /\ LET item == checkout.items[i]
                 userId == verifyToken(UserHeader.token)
                 id == randomUUID(nextId)
             IN IF \/ userId = ""
                   \/ item.eventId \notin DOMAIN events
                   \/ NotEnoughTickets(events[item.eventId], item.quantity)
                THEN /\ checkout' = [checkout EXCEPT !.results[i] = "failed"]
                     /\ UNCHANGED <<events, bookings, nextId>>
                ELSE /\ events' = [events EXCEPT ![item.eventId] =
                                      DecrementedEvent(@, item.quantity)]
                     /\ bookings' =
                          (id :> Booking(id, userId, item.eventId, item.quantity,
                                         TotalPrice("bookings", events[item.eventId],
                                                    item.quantity,
                                                    item.price * item.quantity)))
                          @@ bookings
                     /\ nextId' = nextId + 1
                     /\ checkout' = [checkout EXCEPT !.results[i] = id]
    /\ UNCHANGED <<variant, users, userEmails, userBookings, initialized, req, now,
                   auth, cartItems>>

\* Promise.all settled: clearCart() when every call resolved, the error
\* toast when one threw; finally setIsProcessing(false).
CheckoutEnd ==
    /\ checkout.pc = "booking"
    /\ \A i \in 1..Len(checkout.items) : checkout.results[i] # ""
    /\ cartItems' = IF \A i \in 1..Len(checkout.items) : Booked(i) THEN <<>>
                    ELSE cartItems
    /\ checkout' = [checkout EXCEPT !.pc = "ended"]
    /\ UNCHANGED <<variant, store, nextId, req, now, auth>>

\* The cart is filled before the first checkout and left alone afterwards.
NextCheckout ==
    \/ /\ checkout.runs = 0
       /\ \E item \in CartInputs : addToCart(item)
    \/ handleCheckout
    \/ CheckoutCreateBooking
    \/ CheckoutEnd

\* The client talks to MockServer (USE_MOCK_SERVER = true).
InitCheckout == Init /\ variant = "mock"

SpecCheckout == InitCheckout /\ [][NextCheckout]_vars

\* C28: when handleCheckout has ended, either every item of the cart produced
\* a Booking and the cart is empty, or no item produced a Booking and the cart
\* is as it was; and, the cart not being refilled, no event of the cart is
\* booked twice.
C28_CheckoutAllOrNothing ==
    /\ checkout.pc = "ended"
       => \/ /\ \A i \in 1..Len(checkout.items) : Booked(i)
             /\ cartItems = <<>>
          \/ /\ \A i \in 1..Len(checkout.items) : ~Booked(i)
             /\ cartItems = checkout.items
    /\ \A e \in CartEventIds : Cardinality(EventBookings(e)) <= 1

(***************************************************************************)
(* The email index, checked under SpecIdentity.                            *)
(***************************************************************************)
\* C30: every entry of the email index points to a stored User whose email is
\* the entry's key, in every state, those between the two writes of a sign-up
\* included; and no sign-in is answered from its 'User not found' branch.
C30_EmailIndexSound ==
    /\ \A e \in DOMAIN userEmails :
          /\ userEmails[e] \in DOMAIN users
          /\ users[userEmails[e]].email = e
    /\ \A r \in Reqs : req[r].status # "userNotFound"

\* C30 witness: two sign-ups with one email on the kv server, the first
\* answered, the second between its write of the User and its write of the
\* index entry, which still points to the first sign-up's User.
C30_Witness ==
    \E r, s \in Reqs :
       /\ req[r].op = "signup" /\ req[r].pc = "done" /\ req[r].status = "ok"
       /\ req[s].op = "signup" /\ req[s].pc = "setEmail"
       /\ req[s].email = req[r].email
       /\ req[s].id \in DOMAIN users
       /\ userEmails[req[s].email] = req[r].id

(***************************************************************************)
(* All the operations together.                                            *)
(***************************************************************************)
Next ==
    \/ NextBooking
    \/ NextCatalog
    \/ NextIdentity
    \/ NextAuth
    \/ NextAdmin
    \/ NextLedger
    \/ NextFailure
    \/ NextPricing
    \/ NextListing
    \/ NextUpdate
    \/ NextAccounts
    \/ NextSeeding
    \/ NextInventory
    \/ NextRemoval
    \/ NextCart
    \/ NextCheckout

Spec == Init /\ [][Next]_vars

====
